---- MODULE Spec2Model ----
(***************************************************************************)
(* Model of the cbtoolbox crash-analysis pipeline:                         *)
(*   - compareCores (cmd/core_parser_output.go): signature derivation,      *)
(*     grouping, ranking, time range and aggregate counts;                  *)
(*   - RunCoreInfo / RunGDBAnalysis / RunGDBAnalysisWithSummary             *)
(*     (cmd/coreinfo): prerequisite check, validation, debugger loop and    *)
(*     the temporary command script;                                        *)
(*   - validateCoreFiles / isCoreFile: classification of the arguments;     *)
(*   - extractCoreSummary: extraction of the summary from a transcript;     *)
(*   - saveAnalysis: deduplication, marking and naming of the threads;      *)
(*   - RunSysInfo (cmd/sysinfo): the fan-out of the collection goroutines,  *)
(*     the mutex around the error list, the join and the output;            *)
(*   - rootCmd.PersistentPreRunE (cmd/root.go) and run() (main.go).         *)
(*                                                                         *)
(* Go strings that are joined and split again are modelled as sequences of *)
(* symbols, so that "|" inside a string is a symbol like any other.        *)
(***************************************************************************)
EXTENDS Integers, Sequences, FiniteSets, TLC

VARIABLES
    analyses,     \* compareCores: the input slice []CoreAnalysis
    crashGroups,  \* compareCores: local map signature -> []CoreAnalysis
    comparison,   \* compareCores: the returned CoreComparison
    cmpPc         \* "call" before compareCores runs, "returned" after

cmpVars == <<analyses, crashGroups, comparison, cmpPc>>

VARIABLES
    entry,        \* the function under analysis, "none" when idle
    runPc,        \* position of the run
    args,         \* command-line arguments of coreinfo
    flags,        \* extractBasic, extractDetailed, customGDBFile
    gdbOnPath,    \* exec.LookPath("gdb") finds the debugger
    coreFiles,    \* the validated core files
    coreInfos,    \* FileInfo by validated path
    gdbFile,      \* RunGDBAnalysis: the script path in use
    tempFile,     \* the temporary script file
    deferred,     \* RunGDBAnalysis: registered deferred calls
    idx,          \* number of completed loop iterations
    gdbRuns,      \* debugger processes started, in order
    lookPaths,    \* number of debugger-availability checks
    validations,  \* number of calls of validateCoreFiles
    failed,       \* core files whose analysis failed
    summaries,    \* summaries printed by RunGDBAnalysisWithSummary
    extracted,    \* files written by extractGDBFile
    examined,     \* paths handed to os.Stat or to the `file` tool, in order
    diagnostics,  \* lines printed by validateCoreFiles, in order
    runErr        \* the error returned by the run

runVars == <<entry, runPc, args, flags, gdbOnPath, coreFiles, coreInfos,
             gdbFile, tempFile, deferred, idx, gdbRuns, lookPaths,
             validations, failed, summaries, extracted, examined,
             diagnostics, runErr>>

VARIABLES
    transcript,   \* extractCoreSummary: the lines of the transcript
    parsed,       \* extractCoreSummary: the returned summary and error
    parsePc       \* "call" before extractCoreSummary runs, "returned" after

parseVars == <<transcript, parsed, parsePc>>

VARIABLES
    coreAnalysis, \* saveAnalysis: the CoreAnalysis argument
    saved,        \* saveAnalysis: the record written, and the error
    savePc        \* "call" before saveAnalysis runs, "returned" after

saveVars == <<coreAnalysis, saved, savePc>>

VARIABLES
    formatFlag,   \* RunSysInfo: the --format flag
    GPHOME,       \* RunSysInfo: the GPHOME environment variable
    sysPc,        \* RunSysInfo: position of the main goroutine
    spawned,      \* RunSysInfo: number of go statements executed
    taskPc,       \* position of each collection goroutine
    taskErr,      \* what the getter of each goroutine returned
    info,         \* the SysInfo record, by field
    writers,      \* who has written each field of info
    errs,         \* the shared error list
    held,         \* append(errs, err): the slice each goroutine has read
    mu,           \* the goroutine holding the mutex, "none" when free
    wg,           \* the counter of the WaitGroup
    gphomeErrs,   \* the errors returned by gatherGPHOMEInfo
    printed,      \* what RunSysInfo has written to standard output
    sysErr        \* the error returned by RunSysInfo

sysVars == <<formatFlag, GPHOME, sysPc, spawned, taskPc, taskErr, info,
             writers, errs, held, mu, wg, gphomeErrs, printed, sysErr>>

VARIABLES
    cliEntry,     \* "run", or "PersistentPreRunE" called on its own
    cliPc,        \* position of the call
    osArgs,       \* what the command line resolves to
    cmdName,      \* cmd.Name() of the command handed to the pre-run check
    cliGPHOME,    \* the GPHOME environment variable seen by the root command
    exitFunc,     \* the function exitFunc is bound to
    preRunErr,    \* the error returned by PersistentPreRunE
    executeErr,   \* the error returned by cmd.Execute()
    exitCalls,    \* the codes exitFunc was called with, in order
    runReturn     \* what run() returned, "none" while it has not returned

cliVars == <<cliEntry, cliPc, osArgs, cmdName, cliGPHOME, exitFunc,
             preRunErr, executeErr, exitCalls, runReturn>>

vars == <<cmpVars, runVars, parseVars, saveVars, sysVars, cliVars>>

(* The variables an action of one part leaves to the other parts. *)
notCmp == <<runVars, parseVars, saveVars, sysVars, cliVars>>
notRun == <<cmpVars, parseVars, saveVars, sysVars, cliVars>>
notParse == <<cmpVars, runVars, saveVars, sysVars, cliVars>>
notSave == <<cmpVars, runVars, parseVars, sysVars, cliVars>>
notSys == <<cmpVars, runVars, parseVars, saveVars, cliVars>>
notCli == <<cmpVars, runVars, parseVars, saveVars, sysVars>>

----------------------------------------------------------------------------
(* Bounds of the input families. *)

MaxFrames == 4        \* longest stack trace of the signature family
MaxCores == 5         \* most records of the grouping family
MaxShuffleCores == 4  \* most records of the reordering family
MaxTimeCores == 3     \* most records of the time-range family
MaxArgs == 2          \* most arguments / core files of a run
MaxLines == 3         \* most lines of a debugger transcript
MaxThreads == 3       \* most threads of a crash record
MaxValidateArgs == 3  \* most paths of a call of validateCoreFiles
MaxSepCores == 3      \* most records of the separator family

(* Program constants. *)

SigDepth == 3         \* "i < 3" in the signature loop

----------------------------------------------------------------------------
SeqsUpTo(S, n) == UNION {[1..k -> S] : k \in 0..n}

(* Strings. *)

Sep == "|"

Str(sym) == <<sym>>

SIGSEGV == Str("SIGSEGV")
SIGABRT == Str("SIGABRT")
foo == Str("foo")
bar == Str("bar")
baz == Str("baz")
sys_trampoline == Str("sys_trampoline")

SignalNames == {SIGSEGV, SIGABRT}
FunctionNames == {foo, bar, baz, sys_trampoline}

(* Frames marked as system frames. *)
SystemFunctions == {sys_trampoline}

isSystemFunction(function) == function \in SystemFunctions

(* strings.Split(s, "|") *)
RECURSIVE Split(_)
Split(s) ==
    IF \A i \in 1..Len(s) : s[i] # Sep
    THEN <<s>>
    ELSE LET k == CHOOSE i \in 1..Len(s) :
                      s[i] = Sep /\ \A j \in 1..(i - 1) : s[j] # Sep
         IN  <<SubSeq(s, 1, k - 1)>> \o Split(SubSeq(s, k + 1, Len(s)))

----------------------------------------------------------------------------
(* Timestamps: time.Parse(time.RFC3339, s) and Time.Format(time.RFC3339).  *)
(* A time.Time is modelled by its instant; 0 is the zero Time, which is    *)
(* what time.Parse returns together with its (discarded) error.            *)

ValidStamps == << "2024-01-01T00:00:00Z",
                  "2024-01-02T00:00:00Z",
                  "2024-01-03T00:00:00Z" >>

MalformedStamps == {"not-a-timestamp"}

ZeroTime == 0

ZeroStamp == "0001-01-01T00:00:00Z"

ParseOk(s) == \E i \in DOMAIN ValidStamps : ValidStamps[i] = s

ParseRFC3339(s) ==
    IF ParseOk(s)
    THEN CHOOSE i \in DOMAIN ValidStamps : ValidStamps[i] = s
    ELSE ZeroTime

FormatRFC3339(t) == IF t = ZeroTime THEN ZeroStamp ELSE ValidStamps[t]

----------------------------------------------------------------------------
(* compareCores *)

(* Lines 89-99: the loop tracking firstTime / lastTime. *)
RECURSIVE TrackTimeRange(_, _, _, _)
TrackTimeRange(as, i, firstTime, lastTime) ==
    IF i > Len(as)
    THEN <<firstTime, lastTime>>
    ELSE LET t == ParseRFC3339(as[i].Timestamp)
             f == IF i = 1 \/ t < firstTime THEN t ELSE firstTime
             l == IF i = 1 \/ t > lastTime THEN t ELSE lastTime
         IN  TrackTimeRange(as, i + 1, f, l)

TimeRange(as) ==
    LET r == TrackTimeRange(as, 1, ZeroTime, ZeroTime)
    IN  [first |-> FormatRFC3339(r[1]), last |-> FormatRFC3339(r[2])]

(* Lines 106-107: CommonSignals[signal]++ for every record. *)
CommonSignals(as) ==
    [s \in {as[i].SignalName : i \in DOMAIN as} |->
        Cardinality({i \in DOMAIN as : as[i].SignalName = s})]

FramePositions(as) ==
    UNION {{<<i, j>> : j \in DOMAIN as[i].StackTrace} : i \in DOMAIN as}

(* Variant: the system-function test is missing from the counting loop. *)
CountedFrame_NoSystemTest(function) == TRUE

CountedFrame(function) == ~isSystemFunction(function)

(* Lines 110-114: CommonFunctions[frame.Function]++ for non-system frames. *)
CommonFunctions(as) ==
    LET counted == {p \in FramePositions(as) :
                        CountedFrame(as[p[1]].StackTrace[p[2]])}
    IN  [f \in {as[p[1]].StackTrace[p[2]] : p \in counted} |->
            Cardinality({p \in counted : as[p[1]].StackTrace[p[2]] = f})]

RECURSIVE JoinNonSystem(_)
JoinNonSystem(trace) ==
    IF trace = <<>> THEN <<>>
    ELSE (IF isSystemFunction(Head(trace)) THEN <<>>
          ELSE <<Sep>> \o Head(trace)) \o JoinNonSystem(Tail(trace))

(* Line 120: the frame at (1-based) position i of the trace is written to  *)
(* the signature.                                                          *)
InSignature(trace, i) == i <= SigDepth /\ ~isSystemFunction(trace[i])

(* Lines 117-123: the signature string. *)
RECURSIVE SignatureFrames(_, _)
SignatureFrames(trace, i) ==
    IF i > Len(trace)
    THEN <<>>
    ELSE (IF InSignature(trace, i) THEN <<Sep>> \o trace[i] ELSE <<>>)
            \o SignatureFrames(trace, i + 1)

Signature(analysis) ==
    analysis.SignalName \o SignatureFrames(analysis.StackTrace, 1)

(* Variant: the "i < 3" test reads the index of the record instead of the  *)
(* index of the frame.                                                     *)
CrashGroups_RecordIndex(as) ==
    LET sigAt(i) ==
            as[i].SignalName \o
                (IF i <= SigDepth
                 THEN JoinNonSystem(as[i].StackTrace) ELSE <<>>)
    IN  [sig \in {sigAt(i) : i \in DOMAIN as} |->
            LET members == {i \in DOMAIN as : sigAt(i) = sig}
            IN  SelectSeq(as, LAMBDA a :
                    \E i \in members : as[i] = a)]

(* Line 124: crashGroups[signature] = append(crashGroups[signature], a). *)
CrashGroups(as) ==
    [sig \in {Signature(as[i]) : i \in DOMAIN as} |->
        SelectSeq(as, LAMBDA a : Signature(a) = sig)]

(* Variant: the size test is off by one. *)
IsPattern_OffByOne(group) == Len(group) > 0

(* Line 129: the bucket is promoted to a pattern. *)
IsPattern(group) == Len(group) > 1

(* Lines 130-139. *)
MakePattern(signature, group) ==
    LET parts == Split(signature)
    IN  [Signal            |-> parts[1],
         StackSignature    |-> Tail(parts),
         OccurrenceCount   |-> Len(group),
         AffectedCoreFiles |-> [i \in 1..Len(group) |-> group[i].CoreFile]]

(* All orders in which a finite set can be enumerated. *)
RECURSIVE Orders(_)
Orders(S) ==
    IF S = {} THEN {<<>>}
    ELSE UNION {{<<x>> \o t : t \in Orders(S \ {x})} : x \in S}

(* Variant: the comparison is reversed. *)
Less_Ascending(p, q) == p.OccurrenceCount < q.OccurrenceCount

(* Line 146: the less function handed to sort.Slice. *)
Less(p, q) == p.OccurrenceCount > q.OccurrenceCount

IsSorted(s) == \A i, j \in DOMAIN s : i < j => ~Less(s[j], s[i])

(* Lines 145-147: sort.Slice is not stable; any sorted arrangement of the  *)
(* elements is a possible outcome.                                         *)
SortSlice(s) ==
    {t \in Orders({s[i] : i \in DOMAIN s}) : IsSorted(t)}

(* Lines 128-142: ranging over a Go map visits the keys in an unspecified  *)
(* order; the buckets that pass line 129 are appended in that order, so    *)
(* the slice handed to sort.Slice is any arrangement of their patterns.    *)
GeneratePatterns(groups) ==
    Orders({MakePattern(sig, groups[sig]) :
                sig \in {k \in DOMAIN groups : IsPattern(groups[k])}})

compareCores ==
    /\ cmpPc = "call"
    /\ LET groups == CrashGroups(analyses)
       IN  /\ crashGroups' = groups
           /\ \E appended \in GeneratePatterns(groups) :
              \E sorted \in SortSlice(appended) :
                 comparison' =
                    [TotalCores      |-> Len(analyses),
                     CommonSignals   |-> CommonSignals(analyses),
                     CommonFunctions |-> CommonFunctions(analyses),
                     TimeRange       |-> TimeRange(analyses),
                     CrashPatterns   |-> sorted]
    /\ cmpPc' = "returned"
    /\ UNCHANGED <<analyses, notCmp>>

----------------------------------------------------------------------------
(* The coreinfo command: file system and tools seen by a run. *)

ArgPaths ==
    {"core.1", "core.2", "notes.txt", "nowhere", "dumps", "locked", "spool",
     "empty", "dumps[old"}

Directories == {"dumps", "spool", "empty", "dumps[old"}

(* os.Stat *)
Stat(path) ==
    CASE path = "nowhere"     -> "error"
      [] path \in Directories -> "dir"
      [] OTHER                -> "file"

(* The immediate entries of a directory, in sorted order. *)
DirEntries(dir) ==
    CASE dir = "dumps"     -> <<"dumps/core.3", "dumps/readme">>
      [] dir = "spool"     -> <<"spool/core.4", "spool/locked">>
      [] dir = "dumps[old" -> <<"dumps[old/core.5">>
      [] OTHER             -> <<>>

(* filepath.Glob(filepath.Join(dir, "*")).  The name of the directory is   *)
(* part of the pattern: an unclosed "[" in it makes the pattern malformed, *)
(* and Glob returns ErrBadPattern and no path.                             *)
GlobFails(dir) == dir = "dumps[old"

Glob(dir) == IF GlobFails(dir) THEN <<>> ELSE DirEntries(dir)

(* The `file` tool: err when it cannot be run on the path, otherwise the   *)
(* fragments of its output by label.                                       *)
FileTool(path) ==
    CASE path \in {"locked", "spool/locked"} -> [err |-> TRUE, out |-> <<>>]
      [] path \in {"spool/core.4", "dumps[old/core.5"} ->
            [err |-> FALSE, out |-> [kind |-> "core file"]]
      [] path = "core.1" ->
            [err |-> FALSE,
             out |-> [kind |-> "core file", platform |-> "x86_64",
                      realuid |-> "1000", effuid |-> "1000",
                      realgid |-> "1000", effgid |-> "1000",
                      execfn |-> "/usr/local/cloudberry-db/bin/postgres"]]
      [] path = "core.2" ->
            [err |-> FALSE, out |-> [kind |-> "ELF"]]
      [] path = "dumps/core.3" ->
            [err |-> FALSE,
             out |-> [kind |-> "core file", platform |-> "x86_64"]]
      [] OTHER -> [err |-> FALSE, out |-> [kind |-> "ASCII text"]]

Field(out, label) == IF label \in DOMAIN out THEN out[label] ELSE ""

(* A nil *FileInfo. *)
NilFileInfo == [nil |-> TRUE]

(* Variant: no FileInfo is built for a core file. *)
isCoreFile_NoInfo(filePath) ==
    LET r == FileTool(filePath)
    IN  [valid |-> ~r.err /\ r.out.kind \in {"core file", "ELF"},
         info  |-> NilFileInfo,
         err   |-> r.err]

(* isCoreFile *)
isCoreFile(filePath) ==
    LET r == FileTool(filePath)
        isCore == ~r.err /\ r.out.kind \in {"core file", "ELF"}
    IN  IF r.err
        THEN [valid |-> FALSE, info |-> NilFileInfo, err |-> TRUE]
        ELSE [valid |-> isCore,
              info  |-> IF isCore
                        THEN [Platform |-> Field(r.out, "platform"),
                              RealUID  |-> Field(r.out, "realuid"),
                              EffUID   |-> Field(r.out, "effuid"),
                              RealGID  |-> Field(r.out, "realgid"),
                              EffGID   |-> Field(r.out, "effgid"),
                              ExecPath |-> Field(r.out, "execfn")]
                        ELSE NilFileInfo,
              err   |-> FALSE]

ErrNone == ""
ErrCheckCoreFile == "failed to check core file"
ErrNoCandidates == "no core files specified"
ErrNoValidCoreFiles == "no valid core files provided"
ErrReadDirectory == "failed to read directory"

(* A line printed about a path; verbose marks the lines that are printed   *)
(* in verbose mode only.                                                   *)
Printed(text, path, verbose) ==
    [text |-> text, path |-> path, verbose |-> verbose]

(* A call that looks at a path: os.Stat, or the `file` tool. *)
Looked(call, path) == [call |-> call, path |-> path]

(* validateAndAddCoreFile; acc holds coreFiles, coreInfos and the error,   *)
(* and the calls made and the lines printed so far.                        *)
validateAndAddCoreFile(file, acc) ==
    LET r == isCoreFile(file)
        seen == [acc EXCEPT !.examined = Append(@, Looked("file", file))]
    IN  IF r.err
        THEN [seen EXCEPT
                 !.err = ErrCheckCoreFile,
                 !.prints = Append(@,
                    Printed("'file' command failed", file, FALSE))]
        ELSE IF r.valid
        THEN [seen EXCEPT !.coreFiles = Append(@, file),
                          !.coreInfos = (file :> r.info) @@ @]
        ELSE [seen EXCEPT
                 !.prints = Append(@,
                    Printed("NOT recognized as a core file", file, TRUE))]

(* The inner loop over the entries of a directory. *)
RECURSIVE ValidateEntries(_, _, _)
ValidateEntries(files, i, acc) ==
    IF i > Len(files) \/ acc.err # ErrNone THEN acc
    ELSE ValidateEntries(files, i + 1, validateAndAddCoreFile(files[i], acc))

(* The loop over the arguments. *)
RECURSIVE ValidateArgs(_, _, _)
ValidateArgs(as, i, acc) ==
    IF i > Len(as) \/ acc.err # ErrNone THEN acc
    ELSE LET kind == Stat(as[i])
             seen == [acc EXCEPT
                         !.examined = Append(@, Looked("os.Stat", as[i]))]
             next == CASE kind = "error" ->
                             [seen EXCEPT
                                 !.prints = Append(@,
                                    Printed("Error accessing path", as[i],
                                            FALSE))]
                       [] kind = "dir" /\ GlobFails(as[i]) ->
                             [seen EXCEPT !.err = ErrReadDirectory]
                       [] kind = "dir" /\ ~GlobFails(as[i]) ->
                             ValidateEntries(Glob(as[i]), 1, seen)
                       [] OTHER ->
                             validateAndAddCoreFile(as[i], seen)
         IN  ValidateArgs(as, i + 1, next)

(* Nothing classified, nothing looked at, nothing printed. *)
NoneYet ==
    [coreFiles |-> <<>>, coreInfos |-> <<>>, err |-> ErrNone,
     examined |-> <<>>, prints |-> <<>>]

(* return nil, nil, err *)
NoResult(err, acc) ==
    [acc EXCEPT !.coreFiles = <<>>, !.coreInfos = <<>>, !.err = err]

(* Variant: the length of the argument list is not tested. *)
NoArguments_Unchecked(as) == FALSE

(* Line 99: len(args) == 0. *)
NoArguments(as) == Len(as) = 0

validateCoreFiles(as) ==
    IF NoArguments(as) THEN NoResult(ErrNoCandidates, NoneYet)
    ELSE LET acc == ValidateArgs(as, 1, NoneYet)
         IN  IF acc.err # ErrNone THEN NoResult(acc.err, acc)
             ELSE IF Len(acc.coreFiles) = 0
             THEN NoResult(ErrNoValidCoreFiles, acc)
             ELSE acc

----------------------------------------------------------------------------
(* Debugger transcripts and extractCoreSummary. *)

(* A transcript is a text: a sequence of tokens.  The characters the        *)
(* patterns of extractCoreSummary single out (quote, comma, space after    *)
(* the comma, newline) are tokens of their own; every other token is a     *)
(* run of characters holding none of them.                                 *)
Quote == "'"
Backquote == "backquote"   \* the character gdb opens its quotations with
Comma == ","
Space == " "
Newline == "\n"

GeneratedBy == "Core was generated by "
TerminatedWith == "Program terminated with signal "
SiAddr == "si_addr = "
CurrentThread == "Current thread is "

(* Tokens matched by \w+ and by \d+. *)
WordTokens == {"SIGSEGV", "SIGABRT", "0x0", "0x10", "1"}
DigitTokens == {"1"}

(* The lines a transcript is made of. *)
TranscriptLines ==
    { <<GeneratedBy, Quote, "postgres -D /data", Quote, ".">>,
      <<GeneratedBy, Quote, Quote, ".">>,
      <<GeneratedBy, Backquote, "postgres -D /data", Quote, ".">>,
      <<TerminatedWith, "SIGSEGV", Comma, Space, "Segmentation fault.">>,
      <<TerminatedWith, "SIGABRT">>,
      <<SiAddr, "0x0", Comma>>,
      <<SiAddr, "0x10">>,
      <<CurrentThread, "1", " (Thread 0x7f (LWP 1))">>,
      <<"#0  main ()">> }

(* The text of a sequence of lines. *)
RECURSIVE Text(_)
Text(lines) ==
    IF lines = <<>> THEN <<>>
    ELSE Head(lines) \o <<Newline>> \o Text(Tail(lines))

(* The end (exclusive) of the longest run of tokens from position i on     *)
(* that holds no token of stop: a negated character class, repeated.       *)
RunEnd(text, i, stop) ==
    LET ends == {j \in i..(Len(text) + 1) :
                    j = Len(text) + 1 \/ text[j] \in stop}
    IN  CHOOSE j \in ends : \A k \in ends : j <= k

(* Each pattern, tried at position i of the text: <<>> when it does not    *)
(* match there, otherwise the whole match followed by its groups.          *)

(* `Core was generated by '([^']+)'` *)
binaryRegex(text, i) ==
    LET e == RunEnd(text, i + 2, {Quote})
    IN  IF /\ text[i] = GeneratedBy
           /\ i + 1 <= Len(text) /\ text[i + 1] = Quote
           /\ e > i + 2 /\ e <= Len(text)
        THEN <<SubSeq(text, i, e), SubSeq(text, i + 2, e - 1)>>
        ELSE <<>>

(* `Program terminated with signal (\w+), (.+)` *)
signalRegex(text, i) ==
    LET e == RunEnd(text, i + 4, {Newline})
    IN  IF /\ text[i] = TerminatedWith
           /\ i + 3 <= Len(text)
           /\ text[i + 1] \in WordTokens
           /\ text[i + 2] = Comma /\ text[i + 3] = Space
           /\ e > i + 4
        THEN <<SubSeq(text, i, e - 1), <<text[i + 1]>>,
               SubSeq(text, i + 4, e - 1)>>
        ELSE <<>>

(* `si_addr = ([^,]+)` *)
faultAddrRegex(text, i) ==
    LET e == RunEnd(text, i + 1, {Comma})
    IN  IF text[i] = SiAddr /\ e > i + 1
        THEN <<SubSeq(text, i, e - 1), SubSeq(text, i + 1, e - 1)>>
        ELSE <<>>

(* `Current thread is (\d+)` *)
threadIDRegex(text, i) ==
    IF /\ text[i] = CurrentThread
       /\ i + 1 <= Len(text) /\ text[i + 1] \in DigitTokens
    THEN <<SubSeq(text, i, i + 1), <<text[i + 1]>>>>
    ELSE <<>>

(* `Core was generated by '([^']+)'.*` *)
argsRegex(text, i) ==
    LET m == binaryRegex(text, i)
    IN  IF m = <<>> THEN <<>>
        ELSE <<SubSeq(text, i,
                      RunEnd(text, i + Len(m[1]), {Newline}) - 1), m[2]>>

(* A compiled pattern, by the name of its variable, tried at position i. *)
MatchAt(regex, text, i) ==
    CASE regex = "binaryRegex"    -> binaryRegex(text, i)
      [] regex = "signalRegex"    -> signalRegex(text, i)
      [] regex = "faultAddrRegex" -> faultAddrRegex(text, i)
      [] regex = "threadIDRegex"  -> threadIDRegex(text, i)
      [] regex = "argsRegex"      -> argsRegex(text, i)

(* regexp.FindStringSubmatch: the leftmost match, nil when there is none. *)
FindStringSubmatch(regex, text) ==
    LET hits == {i \in 1..Len(text) : MatchAt(regex, text, i) # <<>>}
    IN  IF hits = {} THEN <<>>
        ELSE MatchAt(regex, text,
                     CHOOSE i \in hits : \A k \in hits : i <= k)

UnknownSignal == <<"Unknown signal">>

(* Variant: the fallback leaves the field empty. *)
NotAvailable_Empty == <<>>

NotAvailable == <<"N/A">>

(* fmt.Sprintf of line 125 *)
FormatSummary(binary, signal, faultAddr, threadID, processArgs) ==
    <<Newline, "Core Dump Analysis Summary:", Newline,
      "----------------------------------------", Newline>>
    \o <<"- Binary: ">> \o binary \o <<Newline>>
    \o <<"- Signal: ">> \o signal \o <<Newline>>
    \o <<"- Faulting Address: ">> \o faultAddr \o <<Newline>>
    \o <<"- Thread ID: ">> \o threadID \o <<Newline>>
    \o <<"- Process Args: ">> \o processArgs \o <<Newline>>

(* Lines 100-135, reached with the binary extracted.  The result holds the *)
(* returned summary and error, the local variables at the return, and the  *)
(* patterns that were searched for, in order.                              *)
ExtractRest(text, binary) ==
    LET mSignal == FindStringSubmatch("signalRegex", text)
        mAddr   == FindStringSubmatch("faultAddrRegex", text)
        mThread == FindStringSubmatch("threadIDRegex", text)
        mArgs   == FindStringSubmatch("argsRegex", text)
        signal  == IF Len(mSignal) > 2
                   THEN mSignal[2] \o <<" (">> \o mSignal[3] \o <<")">>
                   ELSE UnknownSignal
        faultAddr   == IF Len(mAddr) > 1 THEN mAddr[2] ELSE NotAvailable
        threadID    == IF Len(mThread) > 1 THEN mThread[2] ELSE NotAvailable
        processArgs == IF Len(mArgs) > 1 THEN mArgs[2] ELSE NotAvailable
    IN  [err |-> FALSE,
         summary |-> FormatSummary(binary, signal, faultAddr, threadID,
                                   processArgs),
         binary |-> binary, signal |-> signal, faultAddr |-> faultAddr,
         threadID |-> threadID, processArgs |-> processArgs,
         attempted |-> <<"binaryRegex", "signalRegex", "faultAddrRegex",
                         "threadIDRegex", "argsRegex">>]

(* Variant: a missing binary is given a sentinel like the other fields. *)
MissingBinary_Sentinel(text) == ExtractRest(text, NotAvailable)

(* Line 97: return "", error. *)
MissingBinary(text) ==
    [err |-> TRUE, summary |-> <<>>,
     binary |-> <<>>, signal |-> <<>>, faultAddr |-> <<>>,
     threadID |-> <<>>, processArgs |-> <<>>,
     attempted |-> <<"binaryRegex">>]

extractCoreSummary(gdbOutput) ==
    LET mBinary == FindStringSubmatch("binaryRegex", gdbOutput)
    IN  IF Len(mBinary) > 1 THEN ExtractRest(gdbOutput, mBinary[2])
        ELSE MissingBinary(gdbOutput)

(* The outputs of the debugger seen by a run of the analysis loop. *)
Transcripts ==
    { <<>>,
      Text(<< <<GeneratedBy, Quote, "postgres -D /data", Quote, ".">> >>),
      Text(<< <<TerminatedWith, "SIGSEGV", Comma, Space,
                "Segmentation fault.">>,
              <<SiAddr, "0x0", Comma>> >>),
      Text(<< <<CurrentThread, "1", " (Thread 0x7f (LWP 1))">>,
              <<GeneratedBy, Quote, "postgres -D /data", Quote, ".">>,
              <<TerminatedWith, "SIGSEGV", Comma, Space,
                "Segmentation fault.">>,
              <<SiAddr, "0x0", Comma>> >>) }

----------------------------------------------------------------------------
(* RunCoreInfo, RunGDBAnalysis and RunGDBAnalysisWithSummary. *)

ErrExtract == "failed to extract embedded file"
ErrPrerequisite == "prerequisite check failed"
ErrValidation == "core file validation failed"
ErrCreateTemp == "failed to create temp file for GDB commands"
ErrReadEmbedded == "failed to read embedded GDB commands"
ErrWriteTemp == "failed to write GDB commands to temp file"
ErrRunGDB == "failed to run GDB"
ErrSummary == "failed to extract core summary"

BasicScript == "gdb_commands_basic.txt"
TempName == "/tmp/gdb_commands_basic.txt123"
CustomScripts == {"", "custom.gdb"}

(* Variant: the result of the lookup is dropped. *)
checkPrerequisites_Ignored(onPath) == ErrNone

(* checkPrerequisites / checkGDBAvailability: the error of the lookup. *)
checkPrerequisites(onPath) == IF onPath THEN ErrNone ELSE ErrPrerequisite

(* Variant: the removal is not deferred. *)
DefersAfterCreate_NoRemove == <<"tempFile.Close">>

(* The deferred calls RunGDBAnalysis registers after os.CreateTemp, in the *)
(* order of the defer statements.                                          *)
DefersAfterCreate == <<"tempFile.Close", "os.Remove">>

(* Running the deferred calls at return, last registered first. *)
RECURSIVE RunDeferred(_, _)
RunDeferred(stack, temp) ==
    IF stack = <<>> THEN temp
    ELSE LET call == stack[Len(stack)]
             after == CASE call = "os.Remove" ->
                               [temp EXCEPT !.exists = FALSE]
                        [] call = "tempFile.Close" ->
                               [temp EXCEPT !.open = FALSE]
                        [] OTHER -> temp
         IN  RunDeferred(SubSeq(stack, 1, Len(stack) - 1), after)

NoTemp == [created |-> FALSE, exists |-> FALSE, open |-> FALSE,
           written |-> FALSE]

(* A return statement of the analysis function: the deferred calls run and *)
(* the caller (RunCoreInfo, when it is the entry) returns the error.       *)
Return(err) ==
    /\ runErr' = err
    /\ tempFile' = RunDeferred(deferred, tempFile)
    /\ deferred' = <<>>
    /\ runPc' = "done"

(* The same, for a return statement reached in the step that also created  *)
(* the temporary file.                                                     *)
ReturnAfterCreate(err, temp) ==
    /\ runErr' = err
    /\ tempFile' = RunDeferred(DefersAfterCreate, temp)
    /\ deferred' = <<>>
    /\ runPc' = "done"

(* RunCoreInfo lines 60-65: --extract-basic / --extract-detailed. *)
extractGDBFile ==
    /\ entry = "RunCoreInfo" /\ runPc = "start"
    /\ flags.extractBasic \/ flags.extractDetailed
    /\ \E outcome \in {"ok", "readFail", "writeFail"} :
          /\ runErr' = IF outcome = "ok" THEN ErrNone ELSE ErrExtract
          /\ extracted' =
                IF outcome # "ok" THEN extracted
                ELSE IF flags.extractBasic
                THEN extracted \cup {BasicScript}
                ELSE extracted \cup {"gdb_commands_detailed.txt"}
    /\ runPc' = "done"
    /\ UNCHANGED <<notRun, entry, examined, diagnostics,
                   args, flags, gdbOnPath, coreFiles, coreInfos,
                   gdbFile, tempFile, deferred, idx, gdbRuns, lookPaths,
                   validations, failed, summaries>>

(* RunCoreInfo lines 67-70. *)
RunCoreInfo_checkPrerequisites ==
    /\ entry = "RunCoreInfo" /\ runPc = "start"
    /\ ~flags.extractBasic /\ ~flags.extractDetailed
    /\ lookPaths' = lookPaths + 1
    /\ LET err == checkPrerequisites(gdbOnPath)
       IN  IF err # ErrNone
           THEN /\ runErr' = ErrPrerequisite
                /\ runPc' = "done"
           ELSE /\ runErr' = runErr
                /\ runPc' = "validate"
    /\ UNCHANGED <<notRun, entry, examined, diagnostics,
                   args, flags, gdbOnPath, coreFiles, coreInfos,
                   gdbFile, tempFile, deferred, idx, gdbRuns,
                   validations, failed, summaries, extracted>>

(* The validation result makes RunCoreInfo return (line 74). *)
ValidationFailed(result) == result.err # ErrNone

(* RunCoreInfo lines 72-89: validation, then the call of RunGDBAnalysis.   *)
RunCoreInfo_validateCoreFiles ==
    /\ entry = "RunCoreInfo" /\ runPc = "validate"
    /\ validations' = validations + 1
    /\ LET result == validateCoreFiles(args)
       IN  /\ examined' = result.examined
           /\ diagnostics' = result.prints
           /\ IF ValidationFailed(result)
              THEN /\ runErr' = ErrValidation
                   /\ runPc' = "done"
                   /\ UNCHANGED <<coreFiles, coreInfos, gdbFile>>
              ELSE /\ coreFiles' = result.coreFiles
                   /\ coreInfos' = result.coreInfos
                   /\ gdbFile' = flags.customGDBFile
                   /\ runErr' = runErr
                   /\ runPc' = "analysis"
    /\ UNCHANGED <<notRun, entry,
                   args, flags, gdbOnPath, tempFile, deferred, idx,
                   gdbRuns, lookPaths, failed, summaries, extracted>>

(* Variant: the script of the caller is never used. *)
UsesCallerScript_Never(file) == FALSE

(* Line 43: gdbFile is not empty, the caller has supplied a script. *)
UsesCallerScript(file) == file # ""

(* RunGDBAnalysis lines 43-62: materialise the embedded basic script.      *)
RunGDBAnalysis_prepareScript ==
    /\ entry = "RunCoreInfo" /\ runPc = "analysis"
    /\ IF UsesCallerScript(gdbFile)
       THEN /\ runPc' = "loop"
            /\ UNCHANGED <<gdbFile, tempFile, deferred, runErr>>
       ELSE \E outcome \in {"createFail", "readFail", "writeFail", "ok"} :
              LET made == [created |-> TRUE, exists |-> TRUE,
                           open |-> TRUE, written |-> FALSE]
              IN  CASE outcome = "createFail" ->
                         /\ runErr' = ErrCreateTemp
                         /\ runPc' = "done"
                         /\ UNCHANGED <<gdbFile, tempFile, deferred>>
                    [] outcome = "readFail" ->
                         /\ ReturnAfterCreate(ErrReadEmbedded, made)
                         /\ UNCHANGED gdbFile
                    [] outcome = "writeFail" ->
                         /\ ReturnAfterCreate(ErrWriteTemp, made)
                         /\ UNCHANGED gdbFile
                    [] OTHER ->
                         /\ tempFile' = [made EXCEPT !.written = TRUE]
                         /\ deferred' = DefersAfterCreate
                         /\ gdbFile' = TempName
                         /\ runPc' = "loop"
                         /\ UNCHANGED runErr
    /\ UNCHANGED <<notRun, entry, examined, diagnostics,
                   args, flags, gdbOnPath, coreFiles, coreInfos, idx,
                   gdbRuns, lookPaths, validations, failed, summaries,
                   extracted>>

(* The script handed to gdb with -x. *)
ScriptArg ==
    IF entry = "RunGDBAnalysisWithSummary"
    THEN (IF flags.customGDBFile # "" THEN flags.customGDBFile
          ELSE BasicScript)
    ELSE gdbFile

(* Variant: every iteration takes the first core file. *)
NextCoreFile_First == coreFiles[1]

(* Line 64: the element of coreFiles the loop is at. *)
NextCoreFile == coreFiles[idx + 1]

(* Top of a loop iteration: exec.Command(...) and the start of the         *)
(* process; with no gdb on PATH the start fails and the function returns.  *)
StartGDB ==
    /\ runPc = "loop"
    /\ idx < Len(coreFiles)
    /\ IF gdbOnPath
       THEN /\ gdbRuns' = Append(gdbRuns,
                  [file |-> NextCoreFile, script |-> ScriptArg,
                   exit |-> "running"])
            /\ runPc' = "wait"
            /\ UNCHANGED <<runErr, tempFile, deferred, failed>>
       ELSE /\ Return(ErrRunGDB)
            /\ UNCHANGED <<gdbRuns, failed>>
    /\ UNCHANGED <<notRun, entry, examined, diagnostics,
                   args, flags, gdbOnPath, coreFiles, coreInfos,
                   gdbFile, idx, lookPaths, validations, summaries,
                   extracted>>

(* gdbCmd.Run() / gdbCmd.CombinedOutput() returns. *)
GDBExits ==
    /\ runPc = "wait"
    /\ \E ok \in BOOLEAN, output \in Transcripts :
          LET n == Len(gdbRuns)
              file == gdbRuns[n].file
              sum == extractCoreSummary(output)
              bad == \/ ~ok
                     \/ entry = "RunGDBAnalysisWithSummary" /\ sum.err
          IN  /\ entry = "RunCoreInfo" => output = <<>>
              /\ gdbRuns' = [gdbRuns EXCEPT
                                ![n].exit = IF ok THEN "ok" ELSE "failed"]
              /\ IF bad
                 THEN /\ failed' = failed \cup {file}
                      /\ Return(IF ok THEN ErrSummary ELSE ErrRunGDB)
                      /\ UNCHANGED <<idx, summaries>>
                 ELSE /\ idx' = idx + 1
                      /\ runPc' = "loop"
                      /\ summaries' =
                            IF entry = "RunGDBAnalysisWithSummary"
                            THEN Append(summaries, sum.summary)
                            ELSE summaries
                      /\ UNCHANGED <<failed, runErr, tempFile, deferred>>
    /\ UNCHANGED <<notRun, entry, examined, diagnostics,
                   args, flags, gdbOnPath, coreFiles, coreInfos,
                   gdbFile, lookPaths, validations, extracted>>

(* The loop is over: return nil. *)
AnalysisReturns ==
    /\ runPc = "loop"
    /\ idx = Len(coreFiles)
    /\ Return(ErrNone)
    /\ UNCHANGED <<notRun, entry, examined, diagnostics,
                   args, flags, gdbOnPath, coreFiles, coreInfos,
                   gdbFile, idx, gdbRuns, lookPaths, validations, failed,
                   summaries, extracted>>

----------------------------------------------------------------------------
(* The sysinfo command: RunSysInfo (cmd/sysinfo/sysinfo.go). *)

ErrInvalidFormat == "invalid format"
ErrGPHOMENotSet == "GPHOME environment variable is not set"
ErrCollection == "errors occurred during system info collection"

Formats == {"yaml", "json", "xml"}

(* validateFormat *)
validateFormat(format) ==
    IF format \in {"yaml", "json"} THEN ErrNone ELSE ErrInvalidFormat

(* The values of the GPHOME environment variable, and os.Stat on them. *)
GPHOMEs == {"", "/usr/local/cloudberry-db", "/nonexistent/path"}

DirExists(path) == path = "/usr/local/cloudberry-db"

(* The goroutines of the fan-out, in the order of the go statements; each  *)
(* is named after the getter it calls.                                     *)
Tasks ==
    <<"OS", "Architecture", "Hostname", "Kernel", "OSVersion", "CPUs",
      "MemoryStats">>

TaskSet == {Tasks[i] : i \in DOMAIN Tasks}

(* The getters that return an error value. *)
Fallible == {"Hostname", "Kernel", "OSVersion", "MemoryStats"}

(* The field of info a goroutine assigns to. *)
FieldOf(task) == task

DatabaseFields ==
    {"GPHOME", "PGConfigConfigure", "PostgresVersion", "GPVersion"}

Fields == TaskSet \cup DatabaseFields

(* SysInfo{} *)
EmptyInfo == [f \in Fields |-> ""]

NoWriters == [f \in Fields |-> {}]

(* info.<field> = value, by the goroutine who. *)
Assign(rec, field, value) == [rec EXCEPT ![field] = value]

Wrote(ws, field, who) == [ws EXCEPT ![field] = @ \cup {who}]

(* The executables gatherGPHOMEInfo runs under GPHOME/bin, in order, and   *)
(* the field each result goes to.                                          *)
Tools == <<"pg_config", "postgres --version", "postgres --gp-version">>

ToolField(tool) ==
    CASE tool = "pg_config"          -> "PGConfigConfigure"
      [] tool = "postgres --version" -> "PostgresVersion"
      [] OTHER                       -> "GPVersion"

(* getGPHOME *)
getGPHOME(env) ==
    IF env = "" THEN [gphome |-> "", err |-> "GPHOME: not set"]
    ELSE IF ~DirExists(env)
    THEN [gphome |-> env, err |-> "GPHOME: directory does not exist"]
    ELSE [gphome |-> env, err |-> ErrNone]

(* gatherGPHOMEInfo; failing is the set of executables that cannot be run. *)
gatherGPHOMEInfo(env, failing) ==
    LET home == getGPHOME(env)
        first == IF home.err # ErrNone THEN <<home.err>> ELSE <<>>
        ran == IF home.gphome # "" THEN Tools ELSE <<>>
        bad == SelectSeq(ran, LAMBDA t : t \in failing)
    IN  [gphome |-> home.gphome,
         values |-> [f \in DatabaseFields \ {"GPHOME"} |->
                        IF \E i \in DOMAIN ran :
                              ToolField(ran[i]) = f /\ ran[i] \notin failing
                        THEN "set" ELSE ""],
         errs   |-> first \o bad]

(* Variant: GPHOME is never taken as unset. *)
WithoutGPHOME_Never(env) == FALSE

(* Line 348: os.Getenv("GPHOME") == "". *)
WithoutGPHOME(env) == env = ""

(* Variant: Lock never blocks. *)
CanLock_Always == TRUE

(* mu.Lock() returns only when no goroutine holds the mutex. *)
CanLock == mu = "none"

(* Variant: Wait returns at once. *)
Joined_NoWait == TRUE

(* wg.Wait() returns when the counter is zero. *)
Joined == wg = 0

(* Lines 343-345. *)
RunSysInfo_validateFormat ==
    /\ sysPc = "start"
    /\ LET err == validateFormat(formatFlag)
       IN  IF err # ErrNone
           THEN sysErr' = err /\ sysPc' = "done"
           ELSE sysErr' = sysErr /\ sysPc' = "checked"
    /\ UNCHANGED <<notSys, formatFlag, GPHOME, spawned, taskPc, taskErr,
                   info, writers, errs, held, mu, wg, gphomeErrs, printed>>

(* An output of RunSysInfo: the formatted record, or the error summary     *)
(* with the errors listed; unfinished is the set of goroutines still       *)
(* running when the output is made.                                        *)
Output(kind, rec, listed) ==
    [kind |-> kind, format |-> formatFlag, info |-> rec, errs |-> listed,
     unfinished |-> {t \in TaskSet : taskPc[t] \notin {"unspawned", "done"}}]

(* Lines 348-383: GPHOME is not set.  The getters run one after the other  *)
(* in the calling goroutine and their errors are dropped.                  *)
RunSysInfo_withoutGPHOME ==
    /\ sysPc = "checked"
    /\ WithoutGPHOME(GPHOME)
    /\ \E failing \in SUBSET Fallible :
          LET got == TaskSet \ failing
              rec == [f \in Fields |-> IF f \in got THEN "set" ELSE ""]
          IN  /\ info' = rec
              /\ writers' = [f \in Fields |->
                                IF f \in got THEN {"main"} ELSE {}]
              /\ taskErr' = [t \in TaskSet |->
                                IF t \in failing THEN "err" ELSE "nil"]
              /\ printed' = Append(printed, Output("info", rec, <<>>))
    /\ sysErr' = ErrGPHOMENotSet
    /\ sysPc' = "done"
    /\ UNCHANGED <<notSys, formatFlag, GPHOME, spawned, taskPc, errs, held,
                   mu, wg, gphomeErrs>>

(* Lines 385-392: the WaitGroup, the mutex, the record, and wg.Add(7). *)
RunSysInfo_fanOut ==
    /\ sysPc = "checked"
    /\ ~WithoutGPHOME(GPHOME)
    /\ wg' = Len(Tasks)
    /\ sysPc' = "spawn"
    /\ UNCHANGED <<notSys, formatFlag, GPHOME, spawned, taskPc, taskErr,
                   info, writers, errs, held, mu, gphomeErrs, printed,
                   sysErr>>

(* Lines 393-438: the next go statement. *)
RunSysInfo_go ==
    /\ sysPc = "spawn"
    /\ spawned < Len(Tasks)
    /\ spawned' = spawned + 1
    /\ taskPc' = [taskPc EXCEPT ![Tasks[spawned + 1]] = "ready"]
    /\ sysPc' = IF spawned + 1 = Len(Tasks) THEN "gather" ELSE "spawn"
    /\ UNCHANGED <<notSys, formatFlag, GPHOME, taskErr, info, writers, errs,
                   held, mu, wg, gphomeErrs, printed, sysErr>>

(* A goroutine calls its getter.  Without an error it assigns its field    *)
(* and returns (the deferred wg.Done() runs); the memory goroutine, and a  *)
(* goroutine whose getter failed, go on to mu.Lock().                      *)
TaskCall(t) ==
    /\ taskPc[t] = "ready"
    /\ \E ok \in BOOLEAN :
          /\ t \notin Fallible => ok
          /\ taskErr' = [taskErr EXCEPT ![t] = IF ok THEN "nil" ELSE "err"]
          /\ IF ok /\ t # "MemoryStats"
             THEN /\ info' = Assign(info, FieldOf(t), "set")
                  /\ writers' = Wrote(writers, FieldOf(t), t)
                  /\ wg' = wg - 1
                  /\ taskPc' = [taskPc EXCEPT ![t] = "done"]
             ELSE /\ taskPc' = [taskPc EXCEPT ![t] = "lock"]
                  /\ UNCHANGED <<info, writers, wg>>
    /\ UNCHANGED <<notSys, formatFlag, GPHOME, sysPc, spawned, errs, held,
                   mu, gphomeErrs, printed, sysErr>>

(* mu.Lock() returns; the memory goroutine then assigns info.MemoryStats   *)
(* (lines 429-430, 433-434).                                               *)
TaskLock(t) ==
    /\ taskPc[t] = "lock"
    /\ CanLock
    /\ mu' = t
    /\ IF t = "MemoryStats"
       THEN /\ info' = Assign(info, FieldOf(t),
                          IF taskErr[t] = "nil" THEN "set" ELSE "error")
            /\ writers' = Wrote(writers, FieldOf(t), t)
       ELSE UNCHANGED <<info, writers>>
    /\ taskPc' = [taskPc EXCEPT
                     ![t] = IF taskErr[t] = "err" THEN "append"
                            ELSE "unlock"]
    /\ UNCHANGED <<notSys, formatFlag, GPHOME, sysPc, spawned, taskErr,
                   errs, held, wg, gphomeErrs, printed, sysErr>>

(* errs = append(errs, err): the slice is read ... *)
TaskAppendRead(t) ==
    /\ taskPc[t] = "append"
    /\ held' = [held EXCEPT ![t] = errs]
    /\ taskPc' = [taskPc EXCEPT ![t] = "appending"]
    /\ UNCHANGED <<notSys, formatFlag, GPHOME, sysPc, spawned, taskErr,
                   info, writers, errs, mu, wg, gphomeErrs, printed, sysErr>>

(* ... and the extended slice is stored. *)
TaskAppendWrite(t) ==
    /\ taskPc[t] = "appending"
    /\ errs' = Append(held[t], t)
    /\ held' = [held EXCEPT ![t] = <<>>]
    /\ taskPc' = [taskPc EXCEPT ![t] = "unlock"]
    /\ UNCHANGED <<notSys, formatFlag, GPHOME, sysPc, spawned, taskErr,
                   info, writers, mu, wg, gphomeErrs, printed, sysErr>>

(* mu.Unlock(), and the goroutine returns (the deferred wg.Done() runs). *)
TaskUnlock(t) ==
    /\ taskPc[t] = "unlock"
    /\ mu' = "none"
    /\ wg' = wg - 1
    /\ taskPc' = [taskPc EXCEPT ![t] = "done"]
    /\ UNCHANGED <<notSys, formatFlag, GPHOME, sysPc, spawned, taskErr,
                   info, writers, errs, held, gphomeErrs, printed, sysErr>>

ToolSet == {Tools[i] : i \in DOMAIN Tools}

(* The sets of executables that cannot be run; under a GPHOME that does   *)
(* not exist, none can.                                                   *)
ToolFailures == {{}, {"pg_config"}, ToolSet}

(* Lines 441-447, in the main goroutine. *)
RunSysInfo_gatherGPHOMEInfo ==
    /\ sysPc = "gather"
    /\ \E failing \in ToolFailures :
          LET db == gatherGPHOMEInfo(GPHOME, failing)
              stored == [f \in Fields |->
                           IF f = "GPHOME" THEN db.gphome
                           ELSE IF f \in DatabaseFields THEN db.values[f]
                           ELSE info[f]]
          IN  /\ ~DirExists(GPHOME) => failing = ToolSet
              /\ gphomeErrs' = db.errs
              /\ IF db.gphome # ""
                 THEN /\ info' = stored
                      /\ writers' = [f \in Fields |->
                                        IF f \in DatabaseFields
                                        THEN writers[f] \cup {"main"}
                                        ELSE writers[f]]
                 ELSE UNCHANGED <<info, writers>>
    /\ sysPc' = "wait"
    /\ UNCHANGED <<notSys, formatFlag, GPHOME, spawned, taskPc, taskErr,
                   errs, held, mu, wg, printed, sysErr>>

(* Line 449: wg.Wait() returns. *)
RunSysInfo_wait ==
    /\ sysPc = "wait"
    /\ Joined
    /\ sysPc' = "report"
    /\ UNCHANGED <<notSys, formatFlag, GPHOME, spawned, taskPc, taskErr,
                   info, writers, errs, held, mu, wg, gphomeErrs, printed,
                   sysErr>>

(* Lines 452-480: the error summary, or the formatted record. *)
RunSysInfo_report ==
    /\ sysPc = "report"
    /\ IF Len(errs) > 0 \/ Len(gphomeErrs) > 0
       THEN /\ printed' = Append(printed,
                              Output("errors", info, errs \o gphomeErrs))
            /\ sysErr' = ErrCollection
       ELSE /\ printed' = Append(printed, Output("info", info, <<>>))
            /\ sysErr' = ErrNone
    /\ sysPc' = "done"
    /\ UNCHANGED <<notSys, formatFlag, GPHOME, spawned, taskPc, taskErr,
                   info, writers, errs, held, mu, wg, gphomeErrs>>

SysIdle ==
    /\ formatFlag = "yaml" /\ GPHOME = ""
    /\ sysPc = "idle"
    /\ spawned = 0
    /\ taskPc = [t \in TaskSet |-> "unspawned"]
    /\ taskErr = [t \in TaskSet |-> "none"]
    /\ info = EmptyInfo
    /\ writers = NoWriters
    /\ errs = <<>>
    /\ held = [t \in TaskSet |-> <<>>]
    /\ mu = "none"
    /\ wg = 0
    /\ gphomeErrs = <<>>
    /\ printed = <<>>
    /\ sysErr = ErrNone

SysStart ==
    /\ formatFlag \in Formats /\ GPHOME \in GPHOMEs
    /\ sysPc = "start"
    /\ spawned = 0
    /\ taskPc = [t \in TaskSet |-> "unspawned"]
    /\ taskErr = [t \in TaskSet |-> "none"]
    /\ info = EmptyInfo
    /\ writers = NoWriters
    /\ errs = <<>>
    /\ held = [t \in TaskSet |-> <<>>]
    /\ mu = "none"
    /\ wg = 0
    /\ gphomeErrs = <<>>
    /\ printed = <<>>
    /\ sysErr = ErrNone

NextSys ==
    \/ RunSysInfo_validateFormat
    \/ RunSysInfo_withoutGPHOME
    \/ RunSysInfo_fanOut
    \/ RunSysInfo_go
    \/ \E t \in TaskSet : TaskCall(t)
    \/ \E t \in TaskSet : TaskLock(t)
    \/ \E t \in TaskSet : TaskAppendRead(t)
    \/ \E t \in TaskSet : TaskAppendWrite(t)
    \/ \E t \in TaskSet : TaskUnlock(t)
    \/ RunSysInfo_gatherGPHOMEInfo
    \/ RunSysInfo_wait
    \/ RunSysInfo_report

----------------------------------------------------------------------------
(* The root command (cmd/root.go) and run() (main.go). *)

ErrUnknownCommand == "unknown command"
ErrGPHOMEMissing == "GPHOME directory does not exist"
ErrCommand == "command failed"

(* cmd.Name() of the commands the pre-run check may be handed. *)
CommandNames ==
    {"cbtoolbox", "help", "version", "sysinfo", "coreinfo", "test"}

(* The values of GPHOME, and what os.Stat says about them. *)
CliGPHOMEs ==
    {"", "/usr/local/cloudberry-db", "/nonexistent/path", "/etc/hosts",
     "/root/private/gp"}

StatGPHOME(path) ==
    CASE path = "/usr/local/cloudberry-db" -> "dir"
      [] path = "/etc/hosts"               -> "file"
      [] path = "/root/private/gp"         -> "permission denied"
      [] OTHER                             -> "not exist"

(* Variant: no command is exempt from the check. *)
SkipsCheck_Never(name) == FALSE

(* Lines 50-57: the commands that skip the GPHOME check. *)
SkipsCheck(name) == name \in {"help", "version", "cbtoolbox"}

(* rootCmd.PersistentPreRunE *)
PersistentPreRunE(name, gphome) ==
    IF SkipsCheck(name) THEN ErrNone
    ELSE IF gphome = "" THEN ErrGPHOMENotSet
    ELSE IF StatGPHOME(gphome) = "not exist" THEN ErrGPHOMEMissing
    ELSE ErrNone

(* Command lines: what follows the program name. *)
CommandLines == {"", "--help", "invalid", "help", "sysinfo", "coreinfo"}

(* The command the command line names, "none" when it names none that is   *)
(* run.                                                                    *)
Resolve(line) ==
    IF line \in {"help", "sysinfo", "coreinfo"} THEN line ELSE "none"

(* run() line 50, Execute(): the command line is resolved.  An unknown     *)
(* command is an error; the bare program and --help print the help text.   *)
run_Execute ==
    /\ cliEntry = "run" /\ cliPc = "start"
    /\ IF Resolve(osArgs) # "none"
       THEN /\ cmdName' = Resolve(osArgs)
            /\ cliPc' = "prerun"
            /\ UNCHANGED executeErr
       ELSE /\ executeErr' = IF osArgs = "invalid" THEN ErrUnknownCommand
                             ELSE ErrNone
            /\ cliPc' = "executed"
            /\ UNCHANGED cmdName
    /\ UNCHANGED <<notCli, cliEntry, osArgs, cliGPHOME, exitFunc, preRunErr,
                   exitCalls, runReturn>>

(* The pre-run check, called by Execute before the command, or on its own. *)
Call_PersistentPreRunE ==
    /\ cliPc = "prerun"
    /\ LET err == PersistentPreRunE(cmdName, cliGPHOME)
       IN  /\ preRunErr' = err
           /\ IF cliEntry = "PersistentPreRunE"
              THEN cliPc' = "done" /\ UNCHANGED executeErr
              ELSE IF err # ErrNone
              THEN cliPc' = "executed" /\ executeErr' = err
              ELSE cliPc' = "command" /\ UNCHANGED executeErr
    /\ UNCHANGED <<notCli, cliEntry, osArgs, cmdName, cliGPHOME, exitFunc,
                   exitCalls, runReturn>>

(* The command itself runs and returns its error. *)
Execute_RunE ==
    /\ cliPc = "command"
    /\ \E ok \in BOOLEAN :
          /\ cmdName = "help" => ok
          /\ executeErr' = IF ok THEN ErrNone ELSE ErrCommand
    /\ cliPc' = "executed"
    /\ UNCHANGED <<notCli, cliEntry, osArgs, cmdName, cliGPHOME, exitFunc,
                   preRunErr, exitCalls, runReturn>>

(* What exitFunc is bound to: os.Exit (line 44), or a function that        *)
(* records the call and returns.                                           *)
ExitFuncs == {"os.Exit", "recorder"}

(* Lines 51-52: exitFunc(1).  os.Exit ends the process and does not        *)
(* return.                                                                 *)
run_exitFunc ==
    /\ cliPc = "executed"
    /\ executeErr # ErrNone
    /\ exitCalls' = Append(exitCalls, 1)
    /\ cliPc' = IF exitFunc = "os.Exit" THEN "exited" ELSE "returning"
    /\ UNCHANGED <<notCli, cliEntry, osArgs, cmdName, cliGPHOME, exitFunc,
                   preRunErr, executeErr, runReturn>>

(* Lines 53 and 55: return err, return nil. *)
run_return ==
    /\ \/ cliPc = "returning"
       \/ cliPc = "executed" /\ executeErr = ErrNone
    /\ runReturn' = IF executeErr = ErrNone THEN "nil" ELSE executeErr
    /\ cliPc' = "done"
    /\ UNCHANGED <<notCli, cliEntry, osArgs, cmdName, cliGPHOME, exitFunc,
                   preRunErr, executeErr, exitCalls>>

CliIdle ==
    /\ cliEntry = "none" /\ cliPc = "idle"
    /\ osArgs = "" /\ cmdName = "none" /\ cliGPHOME = ""
    /\ exitFunc = "os.Exit"
    /\ preRunErr = ErrNone /\ executeErr = ErrNone
    /\ exitCalls = <<>>
    /\ runReturn = "none"

(* A call of run() on a command line, or of the pre-run check on a         *)
(* command.                                                                *)
CliStart ==
    /\ cliGPHOME \in CliGPHOMEs
    /\ \/ /\ cliEntry = "run" /\ cliPc = "start"
          /\ osArgs \in CommandLines
          /\ cmdName = "none"
          /\ exitFunc \in ExitFuncs
       \/ /\ cliEntry = "PersistentPreRunE" /\ cliPc = "prerun"
          /\ osArgs = ""
          /\ cmdName \in CommandNames
          /\ exitFunc = "os.Exit"
    /\ preRunErr = ErrNone /\ executeErr = ErrNone
    /\ exitCalls = <<>>
    /\ runReturn = "none"

NextCli ==
    \/ run_Execute
    \/ Call_PersistentPreRunE
    \/ Execute_RunE
    \/ run_exitFunc
    \/ run_return

----------------------------------------------------------------------------
RunIdle ==
    /\ entry = "none" /\ runPc = "idle"
    /\ args = <<>>
    /\ flags = [extractBasic |-> FALSE, extractDetailed |-> FALSE,
                customGDBFile |-> ""]
    /\ gdbOnPath = TRUE
    /\ coreFiles = <<>> /\ coreInfos = <<>>
    /\ gdbFile = ""
    /\ tempFile = NoTemp
    /\ deferred = <<>>
    /\ idx = 0
    /\ gdbRuns = <<>>
    /\ lookPaths = 0 /\ validations = 0
    /\ failed = {}
    /\ summaries = <<>>
    /\ extracted = {}
    /\ examined = <<>>
    /\ diagnostics = <<>>
    /\ runErr = ErrNone

CmpIdle ==
    /\ analyses = <<>>
    /\ crashGroups = <<>>
    /\ comparison = <<>>
    /\ cmpPc = "idle"

ParseIdle ==
    /\ transcript = <<>>
    /\ parsed = <<>>
    /\ parsePc = "idle"

SaveIdle ==
    /\ coreAnalysis = <<>>
    /\ saved = <<>>
    /\ savePc = "idle"

Flags ==
    [extractBasic : BOOLEAN, extractDetailed : BOOLEAN,
     customGDBFile : CustomScripts]

(* A run of the coreinfo command, or a direct call of                      *)
(* RunGDBAnalysisWithSummary on a list of core files.                      *)
InitRun ==
    /\ CmpIdle /\ ParseIdle /\ SaveIdle /\ SysIdle /\ CliIdle
    /\ gdbOnPath \in BOOLEAN
    /\ \/ /\ entry = "RunCoreInfo"
          /\ args \in SeqsUpTo(ArgPaths, MaxArgs)
          /\ flags \in Flags
          /\ coreFiles = <<>>
       \/ /\ entry = "RunGDBAnalysisWithSummary"
          /\ args = <<>>
          /\ flags \in {f \in Flags : ~f.extractBasic /\ ~f.extractDetailed}
          /\ coreFiles \in SeqsUpTo({"core.1", "core.2"}, MaxArgs)
    /\ runPc = IF entry = "RunCoreInfo" THEN "start" ELSE "loop"
    /\ coreInfos = <<>>
    /\ gdbFile = ""
    /\ tempFile = NoTemp
    /\ deferred = <<>>
    /\ idx = 0
    /\ gdbRuns = <<>>
    /\ lookPaths = 0 /\ validations = 0
    /\ failed = {}
    /\ summaries = <<>>
    /\ extracted = {}
    /\ examined = <<>>
    /\ diagnostics = <<>>
    /\ runErr = ErrNone

NextRun ==
    \/ extractGDBFile
    \/ RunCoreInfo_checkPrerequisites
    \/ RunCoreInfo_validateCoreFiles
    \/ RunGDBAnalysis_prepareScript
    \/ StartGDB
    \/ GDBExits
    \/ AnalysisReturns

SpecRun == InitRun /\ [][NextRun]_vars

----------------------------------------------------------------------------
(* validateCoreFiles called on its own, on every list of up to             *)
(* MaxValidateArgs paths.                                                  *)

CallValidateCoreFiles ==
    /\ entry = "validateCoreFiles" /\ runPc = "call"
    /\ validations' = validations + 1
    /\ LET result == validateCoreFiles(args)
       IN  /\ coreFiles' = result.coreFiles
           /\ coreInfos' = result.coreInfos
           /\ runErr' = result.err
           /\ examined' = result.examined
           /\ diagnostics' = result.prints
    /\ runPc' = "done"
    /\ UNCHANGED <<notRun, entry, args, flags, gdbOnPath, gdbFile, tempFile,
                   deferred, idx, gdbRuns, lookPaths, failed, summaries,
                   extracted>>

InitValidate ==
    /\ CmpIdle /\ ParseIdle /\ SaveIdle /\ SysIdle /\ CliIdle
    /\ entry = "validateCoreFiles" /\ runPc = "call"
    /\ args \in SeqsUpTo(ArgPaths, MaxValidateArgs)
    /\ flags = [extractBasic |-> FALSE, extractDetailed |-> FALSE,
                customGDBFile |-> ""]
    /\ gdbOnPath = TRUE
    /\ coreFiles = <<>> /\ coreInfos = <<>>
    /\ gdbFile = ""
    /\ tempFile = NoTemp
    /\ deferred = <<>>
    /\ idx = 0
    /\ gdbRuns = <<>>
    /\ lookPaths = 0 /\ validations = 0
    /\ failed = {}
    /\ summaries = <<>>
    /\ extracted = {}
    /\ examined = <<>>
    /\ diagnostics = <<>>
    /\ runErr = ErrNone

NextValidate == CallValidateCoreFiles

SpecValidate == InitValidate /\ [][NextValidate]_vars

----------------------------------------------------------------------------
(* RunSysInfo on every format and GPHOME; run() and the pre-run check on   *)
(* every command line, command and GPHOME.                                 *)

InitSys ==
    /\ CmpIdle /\ RunIdle /\ ParseIdle /\ SaveIdle /\ CliIdle
    /\ SysStart

SpecSys == InitSys /\ [][NextSys]_vars

InitCli ==
    /\ CmpIdle /\ RunIdle /\ ParseIdle /\ SaveIdle /\ SysIdle
    /\ CliStart

SpecCli == InitCli /\ [][NextCli]_vars

----------------------------------------------------------------------------
(* Input families of compareCores. *)

CoreFileName(i) == <<"core", i>>

Analysis(i, rec) ==
    [CoreFile   |-> CoreFileName(i),
     Timestamp  |-> rec.Timestamp,
     SignalName |-> rec.SignalName,
     StackTrace |-> rec.StackTrace]

(* One record, every stack trace up to MaxFrames frames. *)
SigRecords ==
    [Timestamp : {ValidStamps[1]}, SignalName : SignalNames,
     StackTrace : SeqsUpTo(FunctionNames, MaxFrames)]

(* Several records with short traces. *)
GroupTraces == {<<foo>>, <<sys_trampoline, foo>>, <<foo, bar, foo, baz>>}

GroupRecords ==
    [Timestamp : {ValidStamps[1]}, SignalName : SignalNames,
     StackTrace : GroupTraces]

(* Several records that differ in their timestamps. *)
TimeRecords ==
    [Timestamp : {ValidStamps[i] : i \in DOMAIN ValidStamps}
                    \cup MalformedStamps,
     SignalName : SignalNames, StackTrace : {<<>>}]

(* Several records whose names may contain the separator: the function    *)
(* "a|b" next to the functions "a" and "b", the signal "SIGSEGV|a" next to *)
(* the signal "SIGSEGV".                                                   *)
SepTraces == {<<<<"a", Sep, "b">>>>, <<Str("a"), Str("b")>>, <<Str("b")>>}

SepRecords ==
    [Timestamp : {ValidStamps[1]},
     SignalName : {SIGSEGV, <<"SIGSEGV", Sep, "a">>},
     StackTrace : SepTraces]

Batches(Records, n) ==
    {[i \in 1..Len(recs) |-> Analysis(i, recs[i])] :
        recs \in SeqsUpTo(Records, n)}

InitCmp(batches) ==
    /\ RunIdle /\ ParseIdle /\ SaveIdle /\ SysIdle /\ CliIdle
    /\ analyses \in batches
    /\ crashGroups = <<>>
    /\ comparison = <<>>
    /\ cmpPc = "call"

InitSig == InitCmp({<<Analysis(1, r)>> : r \in SigRecords})
InitGroup == InitCmp(Batches(GroupRecords, MaxCores))
InitShuffle == InitCmp(Batches(GroupRecords, MaxShuffleCores))
InitTime == InitCmp(Batches(TimeRecords, MaxTimeCores))
InitSep == InitCmp(Batches(SepRecords, MaxSepCores))

NextCmp == compareCores

SpecSig == InitSig /\ [][NextCmp]_vars
SpecGroup == InitGroup /\ [][NextCmp]_vars
SpecShuffle == InitShuffle /\ [][NextCmp]_vars
SpecTime == InitTime /\ [][NextCmp]_vars
SpecSep == InitSep /\ [][NextCmp]_vars

----------------------------------------------------------------------------
(* extractCoreSummary on every transcript of up to MaxLines lines. *)

CallExtractCoreSummary ==
    /\ parsePc = "call"
    /\ parsed' = extractCoreSummary(Text(transcript))
    /\ parsePc' = "returned"
    /\ UNCHANGED <<transcript, notParse>>

InitParse ==
    /\ CmpIdle /\ RunIdle /\ SaveIdle /\ SysIdle /\ CliIdle
    /\ transcript \in SeqsUpTo(TranscriptLines, MaxLines)
    /\ parsed = <<>>
    /\ parsePc = "call"

NextParse == CallExtractCoreSummary

SpecParse == InitParse /\ [][NextParse]_vars

----------------------------------------------------------------------------
(* saveAnalysis: the threads of a crash record are deduplicated, marked    *)
(* and named, and the record is written.                                   *)

SignalMarker == <<"SigillSigsegvSigbus">>

(* strings.Contains *)
Contains(s, substr) ==
    \E i \in 1..(Len(s) - Len(substr) + 1) :
        SubSeq(s, i, i + Len(substr) - 1) = substr

(* The key of the deduplication: the frame function names, in order. *)
BacktraceKey(thread) ==
    [k \in DOMAIN thread.Backtrace |-> thread.Backtrace[k].Function]

(* The threads at the positions of keep, in their order. *)
RECURSIVE KeepAt(_, _, _)
KeepAt(threads, keep, i) ==
    IF i > Len(threads) THEN <<>>
    ELSE (IF i \in keep THEN <<threads[i]>> ELSE <<>>)
            \o KeepAt(threads, keep, i + 1)

(* deduplicateThreads: threads with the same key collapse to one           *)
(* representative; which member represents them is left open, so every     *)
(* choice is a possible result.                                            *)
deduplicateThreads(threads) ==
    {KeepAt(threads, keep, 1) :
        keep \in {K \in SUBSET DOMAIN threads :
                    /\ \A i \in DOMAIN threads : \E j \in K :
                          BacktraceKey(threads[j]) = BacktraceKey(threads[i])
                    /\ \A i, j \in K :
                          BacktraceKey(threads[i]) = BacktraceKey(threads[j])
                             => i = j}}

(* determineThreadRole: a label looked up from the outermost frame, with a *)
(* generic label for the threads that match nothing.                       *)
determineThreadRole(backtrace) ==
    IF backtrace = <<>> THEN <<"unknown">>
    ELSE LET outermost == backtrace[Len(backtrace)].Function
         IN  CASE outermost = <<"main">> -> <<"main">>
               [] outermost = <<"poll">> -> <<"io">>
               [] OTHER -> <<"worker">>

(* parseBasicInfo: the coarse summary of the header lines. *)
parseBasicInfo(fileOutput) == [header |-> fileOutput]

(* Variant: the result of the deduplication is dropped. *)
DeduplicatedThreads_Discarded(threads) == {threads}

(* Line 43: analysis.Threads = deduplicateThreads(analysis.Threads). *)
DeduplicatedThreads(threads) == deduplicateThreads(threads)

(* Variant: the function name has to be the marker itself. *)
IsSignalDelivery_Exact(function) == function = SignalMarker

(* Line 49: strings.Contains(frame.Function, "SigillSigsegvSigbus"). *)
IsSignalDelivery(function) == Contains(function, SignalMarker)

(* Lines 48-53: the loop over the frames of one thread. *)
MarkedThread(thread) ==
    IF \E k \in DOMAIN thread.Backtrace :
          IsSignalDelivery(thread.Backtrace[k].Function)
    THEN [thread EXCEPT !.IsCrashed = TRUE]
    ELSE thread

(* Variant: the role is appended to the name. *)
NamedThread_Appended(thread) ==
    [thread EXCEPT !.Name = @ \o determineThreadRole(thread.Backtrace)]

(* Line 54: analysis.Threads[i].Name = determineThreadRole(...). *)
NamedThread(thread) ==
    [thread EXCEPT !.Name = determineThreadRole(thread.Backtrace)]

(* Lines 47-55: the loop over the threads. *)
MarkThreads(threads) ==
    [i \in DOMAIN threads |-> NamedThread(MarkedThread(threads[i]))]

(* Lines 43-55 on a thread list: every possible result. *)
NormalizeThreads(threads) ==
    {MarkThreads(d) : d \in DeduplicatedThreads(threads)}

ErrMarshal == "failed to marshal analysis"
ErrWriteAnalysis == "failed to write analysis file"

saveAnalysis ==
    /\ savePc = "call"
    /\ \E threads \in NormalizeThreads(coreAnalysis.Threads),
          outcome \in {"ok", "marshalFail", "writeFail"} :
          saved' =
            [analysis |->
                [coreAnalysis EXCEPT
                    !.Threads = threads,
                    !.BasicInfo =
                        parseBasicInfo(coreAnalysis.FileInfo.FileOutput)],
             written |-> outcome = "ok",
             err |-> CASE outcome = "marshalFail" -> ErrMarshal
                       [] outcome = "writeFail" -> ErrWriteAnalysis
                       [] OTHER -> ErrNone]
    /\ savePc' = "returned"
    /\ UNCHANGED <<coreAnalysis, notSave>>

(* The crash records handed to saveAnalysis. *)

Frame(function, location) ==
    [Function |-> function, Location |-> location]

ThreadBacktraces ==
    { <<>>,
      <<Frame(<<"main">>, "main.c:10")>>,
      <<Frame(<<"main">>, "main.c:20")>>,
      <<Frame(<<"poll">>, ""), Frame(<<"main">>, "main.c:10")>>,
      <<Frame(<<"main">>, "main.c:10"), Frame(<<"poll">>, "")>>,
      <<Frame(SignalMarker, ""), Frame(<<"main">>, "main.c:10")>>,
      <<Frame(<<"poll">>, ""), Frame(SignalMarker \o <<".part.0">>, ""),
        Frame(<<"start_thread">>, "")>>,
      <<Frame(<<"SigillSigsegv">>, ""), Frame(<<"main">>, "main.c:10")>> }

(* The thread list the parser hands over: ids in order, nothing derived. *)
RawThreads(backtraces) ==
    [i \in DOMAIN backtraces |->
        [ID |-> i, Name |-> <<>>, IsCrashed |-> FALSE,
         Backtrace |-> backtraces[i]]]

InitSave ==
    /\ CmpIdle /\ RunIdle /\ ParseIdle /\ SysIdle /\ CliIdle
    /\ \E backtraces \in SeqsUpTo(ThreadBacktraces, MaxThreads) :
          coreAnalysis =
            [CoreFile |-> "core.1",
             FileInfo |-> [FileOutput |-> "ELF 64-bit LSB core file"],
             BasicInfo |-> <<>>,
             Threads |-> RawThreads(backtraces)]
    /\ saved = <<>>
    /\ savePc = "call"

NextSave == saveAnalysis

SpecSave == InitSave /\ [][NextSave]_vars

----------------------------------------------------------------------------
(* Properties of compareCores. *)

Returned == cmpPc = "returned"

Min(a, b) == IF a < b THEN a ELSE b

RECURSIVE JoinFrames(_)
JoinFrames(frames) ==
    IF frames = <<>> THEN <<>>
    ELSE <<Sep>> \o Head(frames) \o JoinFrames(Tail(frames))

NonSystemFrames(trace) ==
    SelectSeq(trace, LAMBDA f : ~isSystemFunction(f))

(* The signal name followed by the first 3 non-system frame names. *)
FirstThreeNonSystem(a) ==
    LET ns == NonSystemFrames(a.StackTrace)
    IN  a.SignalName \o JoinFrames(SubSeq(ns, 1, Min(3, Len(ns))))

InBucket(sig, a) ==
    /\ sig \in DOMAIN crashGroups
    /\ \E k \in DOMAIN crashGroups[sig] : crashGroups[sig][k] = a

(* C1: every record is bucketed under the signature made of its signal     *)
(* name and the first 3 frame names that are not system functions, system  *)
(* frames being skipped without counting towards the 3.                    *)
C1_SignatureFirstThreeNonSystem ==
    Returned =>
        \A i \in DOMAIN analyses :
            InBucket(FirstThreeNonSystem(analyses[i]), analyses[i])

Range(s) == {s[i] : i \in DOMAIN s}

(* The records of the input whose signature is sig, by core file. *)
BucketFiles(sig) ==
    {analyses[i].CoreFile :
        i \in {j \in DOMAIN analyses : Signature(analyses[j]) = sig}}

BucketSize(sig) ==
    Cardinality({j \in DOMAIN analyses : Signature(analyses[j]) = sig})

InputSignatures == {Signature(analyses[i]) : i \in DOMAIN analyses}

PatternOf(sig, p) ==
    /\ Range(p.AffectedCoreFiles) = BucketFiles(sig)
    /\ Len(p.AffectedCoreFiles) = BucketSize(sig)
    /\ p.OccurrenceCount = BucketSize(sig)

(* C2: a bucket is reported as a pattern iff it has 2 or more members; a   *)
(* reported pattern counts and lists exactly the members of its bucket.    *)
C2_PatternIffTwoOrMore ==
    Returned =>
        LET pats == comparison.CrashPatterns
        IN  /\ \A sig \in InputSignatures :
                 (BucketSize(sig) >= 2) <=>
                     (\E k \in DOMAIN pats : PatternOf(sig, pats[k]))
            /\ \A k \in DOMAIN pats :
                 \E sig \in InputSignatures :
                     BucketSize(sig) >= 2 /\ PatternOf(sig, pats[k])
            /\ Len(pats) =
                 Cardinality({sig \in InputSignatures : BucketSize(sig) >= 2})

C2_Witness ==
    /\ Returned
    /\ Len(comparison.CrashPatterns) = 1
    /\ comparison.CrashPatterns[1].OccurrenceCount = 2
    /\ Len(comparison.CrashPatterns[1].AffectedCoreFiles) = 2
    /\ \E sig \in InputSignatures : BucketSize(sig) = 1

(* C3: CrashPatterns is in descending order of OccurrenceCount.            *)
C3_PatternsDescending ==
    Returned =>
        LET pats == comparison.CrashPatterns
        IN  \A k \in 1..(Len(pats) - 1) :
                pats[k].OccurrenceCount >= pats[k + 1].OccurrenceCount

C3_Witness ==
    /\ Returned
    /\ Len(comparison.CrashPatterns) = 2
    /\ comparison.CrashPatterns[1].OccurrenceCount = 3
    /\ comparison.CrashPatterns[2].OccurrenceCount = 2

(* Position in the input of the first record of a pattern. *)
FirstSeen(p) ==
    CHOOSE i \in DOMAIN analyses :
        /\ analyses[i].CoreFile \in Range(p.AffectedCoreFiles)
        /\ \A j \in 1..(i - 1) :
              analyses[j].CoreFile \notin Range(p.AffectedCoreFiles)

(* C4: patterns with equal occurrence counts appear in the order in which  *)
(* their signatures are first seen in the input.                           *)
C4_TiesInFirstSeenOrder ==
    Returned =>
        LET pats == comparison.CrashPatterns
        IN  \A k, l \in DOMAIN pats :
                (k < l /\ pats[k].OccurrenceCount = pats[l].OccurrenceCount)
                    => FirstSeen(pats[k]) < FirstSeen(pats[l])

(* A pattern with its member files as a set. *)
Unordered(p) ==
    [Signal          |-> p.Signal,
     StackSignature  |-> p.StackSignature,
     OccurrenceCount |-> p.OccurrenceCount,
     Files           |-> Range(p.AffectedCoreFiles)]

(* The reported patterns of a run, as a set. *)
AsPatternSet(pats) == {Unordered(pats[k]) : k \in DOMAIN pats}

(* What compareCores reports for an input, whatever order it reports in.   *)
ReportedPatterns(as) ==
    LET groups == CrashGroups(as)
    IN  {Unordered(MakePattern(sig, groups[sig])) :
            sig \in {k \in DOMAIN groups : IsPattern(groups[k])}}

Shuffles(as) == {[i \in DOMAIN as |-> as[pi[i]]] : pi \in Orders(DOMAIN as)}

(* C5: every permutation of the input gives the same set of patterns, the  *)
(* same member files and the same counts.                                  *)
C5_GroupingOrderIndependent ==
    Returned =>
        \A shuffled \in Shuffles(analyses) :
            ReportedPatterns(shuffled) = AsPatternSet(comparison.CrashPatterns)

C5_Witness ==
    /\ Returned
    /\ Len(analyses) >= 4
    /\ Len(comparison.CrashPatterns) >= 1
    /\ Cardinality(InputSignatures) >= 2
    /\ Signature(analyses[1]) # Signature(analyses[Len(analyses)])

ParsedInstants ==
    {ParseRFC3339(analyses[i].Timestamp) :
        i \in {j \in DOMAIN analyses : ParseOk(analyses[j].Timestamp)}}

(* C6: the time range is the minimum and the maximum over the timestamps   *)
(* that parse; a malformed timestamp changes neither end.                  *)
C6_TimeRangeOverParsedStamps ==
    (Returned /\ ParsedInstants # {}) =>
        /\ comparison.TimeRange.first = FormatRFC3339(
              CHOOSE t \in ParsedInstants : \A u \in ParsedInstants : t <= u)
        /\ comparison.TimeRange.last = FormatRFC3339(
              CHOOSE t \in ParsedInstants : \A u \in ParsedInstants : t >= u)

Get(m, k) == IF k \in DOMAIN m THEN m[k] ELSE 0

RECURSIVE SumOver(_, _)
SumOver(m, keys) ==
    IF keys = {} THEN 0
    ELSE LET k == CHOOSE x \in keys : TRUE
         IN  m[k] + SumOver(m, keys \ {k})

RECURSIVE Occurrences(_, _)
Occurrences(trace, f) ==
    IF trace = <<>> THEN 0
    ELSE (IF Head(trace) = f THEN 1 ELSE 0) + Occurrences(Tail(trace), f)

RECURSIVE FramesNamed(_, _)
FramesNamed(as, f) ==
    IF as = <<>> THEN 0
    ELSE Occurrences(Head(as).StackTrace, f) + FramesNamed(Tail(as), f)

(* C7: the aggregate counts cover every record: TotalCores is the number   *)
(* of records, CommonSignals counts the records per signal name and sums   *)
(* to TotalCores, CommonFunctions counts the frames per function name and  *)
(* has no entry for a system function.                                     *)
C7_AggregateCounts ==
    Returned =>
        /\ comparison.TotalCores = Len(analyses)
        /\ DOMAIN comparison.CommonSignals \subseteq SignalNames
        /\ \A s \in SignalNames :
              Get(comparison.CommonSignals, s) =
                 Len(SelectSeq(analyses, LAMBDA a : a.SignalName = s))
        /\ SumOver(comparison.CommonSignals, DOMAIN comparison.CommonSignals)
              = comparison.TotalCores
        /\ \A f \in FunctionNames \ SystemFunctions :
              Get(comparison.CommonFunctions, f) = FramesNamed(analyses, f)
        /\ \A f \in DOMAIN comparison.CommonFunctions :
              f \in FunctionNames /\ ~isSystemFunction(f)

C7_Witness ==
    /\ Returned
    /\ comparison.CrashPatterns = <<>>
    /\ comparison.TotalCores = 2
    /\ Get(comparison.CommonFunctions, foo) = 3
    /\ Get(comparison.CommonFunctions, baz) = 1
    /\ \E i \in DOMAIN analyses :
          \E j \in DOMAIN analyses[i].StackTrace :
              isSystemFunction(analyses[i].StackTrace[j])

----------------------------------------------------------------------------
(* Properties of the coreinfo run. *)

Done == runPc = "done"

(* C8: when the analysis of one core file fails (the debugger exits with a *)
(* failure, or no summary can be extracted from its transcript), every     *)
(* other core file of the batch is still analysed.                         *)
C8_PerFileFailureIsolated ==
    (Done /\ failed # {}) =>
        /\ Len(gdbRuns) = Len(coreFiles)
        /\ \A i \in DOMAIN coreFiles : gdbRuns[i].file = coreFiles[i]

AnalysisRun ==
    entry = "RunCoreInfo" /\ ~flags.extractBasic /\ ~flags.extractDetailed

(* No argument leads to a path that classifies as a core file. *)
NoValidCore ==
    \A i \in DOMAIN args :
        CASE Stat(args[i]) = "error" -> TRUE
          [] Stat(args[i]) = "dir" ->
                \A k \in DOMAIN Glob(args[i]) :
                    ~isCoreFile(Glob(args[i])[k]).valid
          [] OTHER -> ~isCoreFile(args[i]).valid

(* C9: a global precondition failure (no debugger on PATH, no arguments,   *)
(* no valid core file) ends the run with an error and no debugger process  *)
(* is ever started; the availability check is made once, before the        *)
(* validation, however many files there are.                               *)
C9_GlobalFailureAbortsBeforeDebugger ==
    AnalysisRun =>
        /\ lookPaths <= 1
        /\ validations <= 1
        /\ (validations > 0 \/ gdbRuns # <<>> \/ tempFile.created)
              => lookPaths = 1
        /\ gdbRuns # <<>> => validations = 1
        /\ ~gdbOnPath =>
              /\ gdbRuns = <<>> /\ validations = 0 /\ ~tempFile.created
              /\ Done => runErr = ErrPrerequisite
        /\ (gdbOnPath /\ (args = <<>> \/ NoValidCore)) =>
              /\ gdbRuns = <<>> /\ ~tempFile.created
              /\ Done => runErr = ErrValidation

C9_Witness ==
    /\ AnalysisRun /\ Done
    /\ ~gdbOnPath
    /\ Len(args) = 2
    /\ ~NoValidCore
    /\ runErr = ErrPrerequisite
    /\ lookPaths = 1
    /\ gdbRuns = <<>>

(* C10: with no script given, the temporary script file is gone once       *)
(* RunGDBAnalysis has returned, on every exit path after its creation.     *)
C10_TempScriptRemovedOnReturn ==
    (entry = "RunCoreInfo" /\ Done /\ flags.customGDBFile = ""
        /\ tempFile.created)
        => /\ ~tempFile.exists
           /\ runErr \in {ErrReadEmbedded, ErrWriteTemp, ErrRunGDB, ErrNone}

C10_Witness ==
    /\ entry = "RunCoreInfo" /\ Done
    /\ flags.customGDBFile = ""
    /\ tempFile.created /\ tempFile.written /\ ~tempFile.exists
    /\ runErr = ErrRunGDB
    /\ Len(gdbRuns) = 2
    /\ gdbRuns[2].exit = "failed"
    /\ gdbRuns[2].script = TempName

----------------------------------------------------------------------------
(* Properties of extractCoreSummary. *)

Parsed == parsePc = "returned"

(* A line of the transcript is the binary-identity line: the fixed text,   *)
(* then a non-empty quoted text.                                           *)
IsBinaryIdentityLine(line) ==
    /\ Len(line) >= 4
    /\ line[1] = GeneratedBy /\ line[2] = Quote
    /\ line[3] # Quote /\ line[4] = Quote

HasBinaryIdentity ==
    \E k \in DOMAIN transcript : IsBinaryIdentityLine(transcript[k])

(* C11: parsing a transcript without the binary-identity line fails with   *)
(* an error and returns no summary, and no other extraction (signal,       *)
(* fault address, thread id, process args) is attempted; the parsing fails *)
(* in no other case.                                                       *)
C11_MissingBinaryIsTheOnlyFailure ==
    Parsed =>
        /\ ~HasBinaryIdentity =>
              /\ parsed.err
              /\ parsed.summary = <<>>
              /\ parsed.attempted = <<"binaryRegex">>
        /\ parsed.err => ~HasBinaryIdentity

C11_Witness ==
    /\ Parsed
    /\ ~HasBinaryIdentity
    /\ Len(transcript) = 3
    /\ \E k \in DOMAIN transcript : transcript[k][1] = TerminatedWith
    /\ \E k \in DOMAIN transcript : transcript[k][1] = SiAddr
    /\ \E k \in DOMAIN transcript : transcript[k][1] = CurrentThread
    /\ parsed.err
    /\ parsed.attempted = <<"binaryRegex">>

(* What one pattern alone finds in the transcript. *)
Found(regex) == FindStringSubmatch(regex, Text(transcript))

(* The lines of the transcript that do not start the fragment of a field. *)
Without(label) == SelectSeq(transcript, LAMBDA line : line[1] # label)

LacksFragment(label) == Without(label) = transcript

----------------------------------------------------------------------------
(* Properties of the thread normalization in saveAnalysis. *)

Saved == savePc = "returned"

RawList == coreAnalysis.Threads
NormalizedList == saved.analysis.Threads

(* The ordered frame function names of a backtrace. *)
FrameNames(backtrace) ==
    [k \in DOMAIN backtrace |-> backtrace[k].Function]

(* C13: after the normalization no two threads of the record have the same *)
(* backtrace (the same frame function names in the same order): the        *)
(* threads with one backtrace have collapsed to one of them.               *)
C13_NoTwoThreadsShareBacktrace ==
    Saved =>
        /\ \A i, j \in DOMAIN NormalizedList :
              FrameNames(NormalizedList[i].Backtrace)
                    = FrameNames(NormalizedList[j].Backtrace)
                 => i = j
        /\ \A i \in DOMAIN RawList : \E j \in DOMAIN NormalizedList :
              FrameNames(NormalizedList[j].Backtrace)
                 = FrameNames(RawList[i].Backtrace)
        /\ \A j \in DOMAIN NormalizedList : \E i \in DOMAIN RawList :
              /\ NormalizedList[j].ID = RawList[i].ID
              /\ NormalizedList[j].Backtrace = RawList[i].Backtrace

(* Two threads in main, seen at different source lines, and a third one. *)
C13_Witness ==
    /\ Saved
    /\ Len(RawList) = 3 /\ Len(NormalizedList) = 2
    /\ \E i, j \in DOMAIN RawList :
          /\ i # j
          /\ RawList[i].Backtrace # RawList[j].Backtrace
          /\ FrameNames(RawList[i].Backtrace) = <<<<"main">>>>
          /\ FrameNames(RawList[j].Backtrace) = <<<<"main">>>>

(* C14: the normalization is idempotent: run on its own output it returns  *)
(* that output, whichever representatives it picks.                        *)
C14_NormalizationIdempotent ==
    Saved => NormalizeThreads(NormalizedList) = {NormalizedList}

(* A list that the first run has shortened and marked. *)
C14_Witness ==
    /\ Saved
    /\ Len(RawList) = 3 /\ Len(NormalizedList) = 2
    /\ \E j \in DOMAIN NormalizedList : NormalizedList[j].IsCrashed
    /\ \E j \in DOMAIN NormalizedList :
          NormalizedList[j].Name = <<"worker">>
    /\ NormalizeThreads(NormalizedList) = {NormalizedList}

CrashedThreads ==
    {j \in DOMAIN NormalizedList : NormalizedList[j].IsCrashed}

(* C15: after the normalization at most one thread of the record is marked *)
(* crashed, for every thread list, also when several threads with distinct *)
(* backtraces each hold a signal-delivery frame.                           *)
C15_AtMostOneCrashedThread ==
    Saved => Cardinality(CrashedThreads) <= 1

(* A frame whose function name holds the text of the marker. *)
HasMarkerFrame(thread) ==
    \E k \in DOMAIN thread.Backtrace :
        \E c \in DOMAIN thread.Backtrace[k].Function :
            thread.Backtrace[k].Function[c] = "SigillSigsegvSigbus"

(* C16: when no thread has a frame matching the signal-delivery marker, no *)
(* thread is marked crashed and the normalization reports no error (a      *)
(* record that is marshalled and written is saved without error); a thread *)
(* that has such a frame is marked crashed.                                *)
C16_CrashedIffMarkerFrame ==
    Saved =>
        /\ (\A i \in DOMAIN RawList : ~HasMarkerFrame(RawList[i]))
              => /\ CrashedThreads = {}
                 /\ saved.written => saved.err = ErrNone
        /\ \A j \in DOMAIN NormalizedList :
              HasMarkerFrame(NormalizedList[j])
                 => NormalizedList[j].IsCrashed
        /\ saved.err \in {ErrNone, ErrMarshal, ErrWriteAnalysis}
        /\ saved.err = ErrNone <=> saved.written

(* No marker anywhere: three threads, none crashed, the record saved. *)
C16_Witness ==
    /\ Saved
    /\ Len(NormalizedList) = 3
    /\ \A i \in DOMAIN RawList : ~HasMarkerFrame(RawList[i])
    /\ \E i \in DOMAIN RawList :
          /\ RawList[i].Backtrace # <<>>
          /\ RawList[i].Backtrace[1].Function = <<"SigillSigsegv">>
    /\ CrashedThreads = {}
    /\ saved.written /\ saved.err = ErrNone

(* The marker inside a longer function name, not in the innermost frame. *)
C16_WitnessMarked ==
    /\ Saved
    /\ \E j \in DOMAIN NormalizedList :
          /\ NormalizedList[j].IsCrashed
          /\ Len(NormalizedList[j].Backtrace) = 3
          /\ NormalizedList[j].Backtrace[2].Function
                = <<"SigillSigsegvSigbus", ".part.0">>

----------------------------------------------------------------------------
(* Properties of validateCoreFiles. *)

Validated == entry = "validateCoreFiles" /\ runPc = "done"

(* C17: called with an empty argument list, validateCoreFiles fails with   *)
(* the no-candidates error, returns no paths, and has looked at no path    *)
(* (no os.Stat, no `file`); the no-candidates error is returned for the    *)
(* empty list only.                                                        *)
C17_EmptyArgumentsNoCandidates ==
    Validated =>
        /\ args = <<>> =>
              /\ runErr = ErrNoCandidates
              /\ coreFiles = <<>> /\ coreInfos = <<>>
              /\ examined = <<>>
              /\ diagnostics = <<>>
        /\ runErr = ErrNoCandidates => args = <<>>

C17_Witness ==
    /\ Validated
    /\ args = <<>>
    /\ validations = 1
    /\ runErr = ErrNoCandidates
    /\ examined = <<>>

(* The paths an argument stands for: itself, or the entries of the         *)
(* directory it names; none when it does not exist.                        *)
Candidates(arg) ==
    CASE Stat(arg) = "error" -> {}
      [] Stat(arg) = "dir"   -> Range(DirEntries(arg))
      [] OTHER               -> {arg}

(* The candidates of an argument that classify as core files. *)
ValidCandidates(arg) == {p \in Candidates(arg) : isCoreFile(p).valid}

(* C18: validateCoreFiles fails with the no-valid-core-files error         *)
(* whenever the classification of a non-empty argument list yields no      *)
(* valid path; whenever it succeeds, the returned list is non-empty and    *)
(* holds only paths that classify as core files.                           *)
C18_NoValidCoreFilesError ==
    Validated =>
        /\ (/\ args # <<>>
            /\ \A i \in DOMAIN args : ValidCandidates(args[i]) = {})
              => /\ runErr = ErrNoValidCoreFiles
                 /\ coreFiles = <<>>
        /\ runErr = ErrNone =>
              /\ coreFiles # <<>>
              /\ \A k \in DOMAIN coreFiles : isCoreFile(coreFiles[k]).valid

(* What classifying one path on its own returns. *)
ClassifiedAlone(path) == Range(validateCoreFiles(<<path>>).coreFiles)

(* C19: for every directory argument the returned paths are exactly the    *)
(* immediate entries of the directory that pass the classification of a    *)
(* single file: a call on directories returns the union of what            *)
(* classifying each entry on its own returns, and entries that do not pass *)
(* are left out without failing the call.                                  *)
C19_DirectoryIsUnionOfEntries ==
    (Validated /\ args # <<>>
        /\ \A i \in DOMAIN args : Stat(args[i]) = "dir") =>
        /\ Range(coreFiles) =
              UNION {UNION {ClassifiedAlone(e) :
                               e \in Range(DirEntries(args[i]))} :
                        i \in DOMAIN args}
        /\ runErr \in {ErrNone, ErrNoValidCoreFiles}

(* C20: an argument that does not exist is skipped with a printed line and *)
(* is no failure: the other arguments are still classified, and the call   *)
(* succeeds when another argument yields a valid core file.                *)
C20_MissingPathSkipped ==
    Validated =>
        \A i \in DOMAIN args :
            Stat(args[i]) = "error" =>
                /\ \E d \in DOMAIN diagnostics :
                      /\ diagnostics[d].path = args[i]
                      /\ ~diagnostics[d].verbose
                /\ \A j \in DOMAIN args :
                      \E e \in DOMAIN examined :
                          examined[e] = Looked("os.Stat", args[j])
                /\ (\E j \in DOMAIN args : ValidCandidates(args[j]) # {})
                      => /\ runErr = ErrNone
                         /\ Range(coreFiles)
                               = UNION {ValidCandidates(args[j]) :
                                           j \in DOMAIN args}

(* The calls of the `file` tool that could not be run. *)
FailedToolCalls ==
    {e \in DOMAIN examined :
        examined[e].call = "file" /\ FileTool(examined[e].path).err}

(* C21: a path on which the `file` tool cannot be run is logged and        *)
(* skipped, and the batch goes on: the call does not end with the error of *)
(* that path, every argument after it is still looked at, and the paths    *)
(* validated before it are still returned.                                 *)
C21_ToolFailureSkipped ==
    Validated =>
        \A e \in FailedToolCalls :
            /\ \E d \in DOMAIN diagnostics :
                  diagnostics[d].path = examined[e].path
            /\ runErr # ErrCheckCoreFile
            /\ \A j \in DOMAIN args :
                  \E x \in DOMAIN examined :
                      examined[x] = Looked("os.Stat", args[j])
            /\ \A x \in 1..(e - 1) :
                  (examined[x].call = "file"
                      /\ isCoreFile(examined[x].path).valid)
                      => examined[x].path \in Range(coreFiles)

----------------------------------------------------------------------------
(* Properties of RunSysInfo. *)

(* The goroutines inside errs = append(errs, err). *)
Appending == {t \in TaskSet : taskPc[t] \in {"append", "appending"}}

(* C22: during the fan-out no field of the shared record is written by two *)
(* tasks (the seven goroutines and the main goroutine), and every append   *)
(* to the shared error list is made by the holder of the mutex, so that at *)
(* most one append is under way.                                           *)
C22_DisjointFieldsLockedAppends ==
    /\ \A f \in Fields : Cardinality(writers[f]) <= 1
    /\ \A t \in Appending : mu = t
    /\ Cardinality(Appending) <= 1

C22_Witness ==
    /\ taskPc["Hostname"] = "appending"
    /\ taskPc["Kernel"] = "lock"
    /\ taskPc["MemoryStats"] = "lock"
    /\ errs = <<"OSVersion">>
    /\ writers["OS"] = {"OS"}
    /\ writers["GPHOME"] = {"main"}

(* The run went through the fan-out. *)
FannedOut == spawned = Len(Tasks)

(* The goroutines whose getter failed. *)
FailedTasks == {t \in TaskSet : taskErr[t] = "err"}

(* C23: RunSysInfo reads the error list and makes its output only after    *)
(* all seven goroutines have finished, and the list then holds exactly one *)
(* entry for each goroutine that failed.                                   *)
C23_JoinBeforeOutput ==
    /\ (FannedOut /\ sysPc \in {"report", "done"}) =>
          /\ \A t \in TaskSet : taskPc[t] = "done"
          /\ Len(errs) = Cardinality(FailedTasks)
          /\ \A t \in FailedTasks : \E i \in DOMAIN errs : errs[i] = t
    /\ \A k \in DOMAIN printed :
          /\ printed[k].unfinished = {}
          /\ (FannedOut /\ printed[k].kind = "errors")
                => printed[k].errs = errs \o gphomeErrs
    /\ (FannedOut /\ sysPc = "done") => Len(printed) = 1

C23_Witness ==
    /\ FannedOut /\ sysPc = "done"
    /\ Cardinality(FailedTasks) = 3
    /\ Len(printed) = 1
    /\ printed[1].kind = "errors"
    /\ Len(printed[1].errs) = 3

(* RunSysInfo has returned, and GPHOME was not set. *)
ReturnedWithoutGPHOME == sysPc = "done" /\ GPHOME = ""

(* The one output of system-level information, and no goroutine started. *)
SystemInfoOnlyOnce ==
    /\ Len(printed) = 1
    /\ printed[1].kind = "info"
    /\ \A f \in DatabaseFields : printed[1].info[f] = ""
    /\ \A f \in {"OS", "Architecture", "CPUs"} : printed[1].info[f] # ""
    /\ spawned = 0 /\ wg = 0
    /\ \A t \in TaskSet : taskPc[t] = "unspawned"
    /\ sysErr = ErrGPHOMENotSet

(* C24 as stated: whenever GPHOME is not set, RunSysInfo outputs the       *)
(* system-level information once, without database fields, starts no      *)
(* goroutine, and returns the GPHOME-not-set error.                        *)
C24_WithoutGPHOME_AsStated == ReturnedWithoutGPHOME => SystemInfoOnlyOnce

(* C24: when GPHOME is not set and the format is yaml or json, RunSysInfo  *)
(* outputs the system-level information once, without database fields,    *)
(* starts no goroutine, and returns the GPHOME-not-set error; with any     *)
(* other format it returns the invalid-format error and outputs nothing.   *)
C24_WithoutGPHOME ==
    ReturnedWithoutGPHOME =>
        IF validateFormat(formatFlag) = ErrNone
        THEN SystemInfoOnlyOnce
        ELSE /\ sysErr = ErrInvalidFormat
             /\ printed = <<>>
             /\ spawned = 0

C24_Witness ==
    /\ ReturnedWithoutGPHOME
    /\ formatFlag = "json"
    /\ Len(printed) = 1
    /\ printed[1].info["Hostname"] = ""
    /\ printed[1].info["Kernel"] # ""
    /\ sysErr = ErrGPHOMENotSet

----------------------------------------------------------------------------
(* Properties of the root command and of run(). *)

(* The pre-run check has returned. *)
PreRunReturned ==
    \/ cliEntry = "PersistentPreRunE" /\ cliPc = "done"
    \/ cliEntry = "run" /\ cmdName # "none" /\ cliPc # "prerun"

(* C25: the pre-run check returns nil for the help command, the version    *)
(* command and the root command whatever GPHOME is; for every other        *)
(* command it returns an error when GPHOME is unset or names a path that   *)
(* does not exist, and nil when GPHOME names an existing directory.        *)
C25_PreRunChecksGPHOME ==
    PreRunReturned =>
        IF cmdName \in {"help", "version", "cbtoolbox"}
        THEN preRunErr = ErrNone
        ELSE /\ cliGPHOME = "" => preRunErr = ErrGPHOMENotSet
             /\ (cliGPHOME # "" /\ StatGPHOME(cliGPHOME) = "not exist")
                   => preRunErr = ErrGPHOMEMissing
             /\ StatGPHOME(cliGPHOME) = "dir" => preRunErr = ErrNone

C25_Witness ==
    /\ cliEntry = "PersistentPreRunE" /\ cliPc = "done"
    /\ cmdName = "test"
    /\ cliGPHOME = "/nonexistent/path"
    /\ preRunErr = ErrGPHOMEMissing

(* run() is over: it has returned, or the process has ended inside it. *)
RunOver == cliEntry = "run" /\ cliPc \in {"done", "exited"}

(* C26: whenever command execution fails, run() calls the exit function    *)
(* exactly once, with code 1, and returns the error; when it succeeds,     *)
(* run() returns nil and the exit function is never called.                *)
C26_ExitOnceAndReturnError ==
    RunOver =>
        IF executeErr # ErrNone
        THEN exitCalls = <<1>> /\ runReturn = executeErr
        ELSE exitCalls = <<>> /\ runReturn = "nil"

----------------------------------------------------------------------------
(* Properties of the debugger loop of RunGDBAnalysis. *)

(* RunGDBAnalysis was called (by RunCoreInfo, after the validation). *)
AnalysisCalled ==
    AnalysisRun /\ runPc \in {"analysis", "loop", "wait", "done"}
        /\ validations = 1 /\ (runPc = "done" => runErr # ErrValidation)

(* C27: the debugger is started for the elements of the validated list in  *)
(* list order and for no other file, one at a time: a process is started   *)
(* only when every process started before it has exited; and when         *)
(* RunGDBAnalysis returns nil, every invocation having succeeded, there    *)
(* has been exactly one invocation for each element of the list.           *)
C27_SequentialOncePerFile ==
    AnalysisCalled =>
        /\ Len(gdbRuns) <= Len(coreFiles)
        /\ \A k \in DOMAIN gdbRuns :
              /\ gdbRuns[k].file = coreFiles[k]
              /\ k < Len(gdbRuns) => gdbRuns[k].exit = "ok"
              /\ gdbRuns[k].exit = "running" => runPc = "wait"
        /\ (Done /\ runErr = ErrNone) =>
              /\ Len(gdbRuns) = Len(coreFiles)
              /\ \A k \in DOMAIN gdbRuns : gdbRuns[k].exit = "ok"

C27_Witness ==
    /\ AnalysisCalled /\ Done /\ runErr = ErrNone
    /\ coreFiles = <<"core.2", "dumps/core.3">>
    /\ Len(gdbRuns) = 2
    /\ gdbRuns[1].file = "core.2" /\ gdbRuns[2].file = "dumps/core.3"

(* C29: when the caller supplies a script, RunGDBAnalysis creates no       *)
(* temporary file, registers no removal, writes no file, and hands the     *)
(* supplied path unchanged to every debugger invocation, on every exit     *)
(* path.                                                                   *)
C29_CallerScriptUntouched ==
    (AnalysisCalled /\ flags.customGDBFile # "") =>
        /\ tempFile = NoTemp
        /\ deferred = <<>>
        /\ extracted = {}
        /\ gdbFile = flags.customGDBFile
        /\ \A k \in DOMAIN gdbRuns :
              gdbRuns[k].script = flags.customGDBFile

C29_Witness ==
    /\ AnalysisCalled /\ Done
    /\ flags.customGDBFile = "custom.gdb"
    /\ runErr = ErrRunGDB
    /\ Len(gdbRuns) = 2
    /\ gdbRuns[2].exit = "failed"
    /\ gdbRuns[1].script = "custom.gdb" /\ gdbRuns[2].script = "custom.gdb"
    /\ tempFile = NoTemp

----------------------------------------------------------------------------
(* The FileInfo mapping returned by validateCoreFiles. *)

(* The label of the tool output a field of FileInfo is taken from. *)
ToolLabel(f) ==
    CASE f = "Platform" -> "platform"
      [] f = "RealUID"  -> "realuid"
      [] f = "EffUID"   -> "effuid"
      [] f = "RealGID"  -> "realgid"
      [] f = "EffGID"   -> "effgid"
      [] OTHER          -> "execfn"

FileInfoFields ==
    {"Platform", "RealUID", "EffUID", "RealGID", "EffGID", "ExecPath"}

(* C28: on success the keys of the returned FileInfo mapping are exactly   *)
(* the returned paths; every entry is a FileInfo record (not nil) holding  *)
(* what the tool output gave, with the fields it did not give left empty;  *)
(* and no path that was classified as not a core file has an entry.        *)
C28_FileInfoKeysAreReturnedPaths ==
    (Validated /\ runErr = ErrNone) =>
        /\ DOMAIN coreInfos = Range(coreFiles)
        /\ \A p \in DOMAIN coreInfos :
              /\ coreInfos[p] # NilFileInfo
              /\ DOMAIN coreInfos[p] = FileInfoFields
              /\ \A f \in FileInfoFields :
                    coreInfos[p][f] = Field(FileTool(p).out, ToolLabel(f))
        /\ \A e \in DOMAIN examined :
              (examined[e].call = "file"
                  /\ ~isCoreFile(examined[e].path).valid)
                  => examined[e].path \notin DOMAIN coreInfos

C28_Witness ==
    /\ Validated /\ runErr = ErrNone
    /\ args = <<"core.2", "notes.txt", "core.1">>
    /\ coreFiles = <<"core.2", "core.1">>
    /\ coreInfos["core.2"].Platform = ""
    /\ coreInfos["core.1"].Platform = "x86_64"
    /\ "notes.txt" \notin DOMAIN coreInfos

----------------------------------------------------------------------------
(* Buckets and patterns of compareCores when names hold the separator. *)

(* The names of the frames that enter the signature of a trace, in order:  *)
(* the frames at the first SigDepth positions that are not system frames.  *)
SignatureNames(trace) ==
    LET at == SelectSeq([i \in 1..Min(Len(trace), SigDepth) |-> i],
                        LAMBDA i : ~isSystemFunction(trace[i]))
    IN  [k \in 1..Len(at) |-> trace[at[k]]]

(* Two records that compareCores has put in the same bucket. *)
SameBucket(a, b) ==
    \E sig \in DOMAIN crashGroups :
        /\ \E i \in DOMAIN crashGroups[sig] : crashGroups[sig][i] = a
        /\ \E j \in DOMAIN crashGroups[sig] : crashGroups[sig][j] = b

(* The records a pattern reports as affected. *)
Members(p) ==
    {i \in DOMAIN analyses :
        \E k \in DOMAIN p.AffectedCoreFiles :
            p.AffectedCoreFiles[k] = analyses[i].CoreFile}

(* C30: two records are in the same bucket only if they have the same      *)
(* signal name and the same sequence of signature frame names, and every   *)
(* reported pattern carries the signal name and the signature frame names  *)
(* of each of its members, also when a name contains "|".                  *)
C30_BucketsAndPatternsFaithful ==
    Returned =>
        /\ \A i, j \in DOMAIN analyses :
              SameBucket(analyses[i], analyses[j]) =>
                  /\ analyses[i].SignalName = analyses[j].SignalName
                  /\ SignatureNames(analyses[i].StackTrace)
                        = SignatureNames(analyses[j].StackTrace)
        /\ \A k \in DOMAIN comparison.CrashPatterns :
              LET p == comparison.CrashPatterns[k]
              IN  \A i \in Members(p) :
                      /\ p.Signal = analyses[i].SignalName
                      /\ p.StackSignature
                            = SignatureNames(analyses[i].StackTrace)

====
